---- MODULE Spec2Model ----
(***************************************************************************)
(* Model of the token mint pipeline: the charge-gated admission controller *)
(* (CapacitorMint), the batch queue (BatchProcessor) with its two token    *)
(* creation collaborators (TokenFactory, ALCMinter) and the hash-chained   *)
(* ledger (ImmutableLedger), with the backup store (BackupSystem) and the  *)
(* request intake (MintReceiver).                                          *)
(*                                                                         *)
(* Numbers are integers: charge, intensities, decay rates and boost        *)
(* amounts are drawn from integer sets. Time is a millisecond clock `now`  *)
(* that only the Tick action advances; every `new Date()` reads it.        *)
(***************************************************************************)
EXTENDS Integers, Sequences, FiniteSets, TLC

VARIABLES
  \* CapacitorMint
  charge, threshold, activityLog, lastMintTime, capRet,
  \* BatchProcessor: its fields, the suspended processBatch calls (jobs) and the
  \* value its last finished call returned
  queue, processing, batchHistory, jobs, bpRet,
  \* TokenFactory.ledger
  factoryLedger,
  \* ALCMinter
  totalMinted, inCirculation, mintingHistory, capacitorCharge,
  \* ImmutableLedger: its fields, the value its last call returned (or the
  \* error it threw), and how many entries each caller has appended
  ledger, merkleRoots, ledRet, appendsBy,
  \* the callers: the requests they submit, how many they have submitted, and
  \* the requests whose token creation has been invoked, in that order
  workload, submitted, processed,
  \* identifiers handed out so far (token ids, batch ids)
  idCounter, batchCount,
  \* the activity sources: the events {kind, intensity, observedAt} they have
  \* registered since the capacitor was constructed, in arrival order
  arrivals,
  \* BackupSystem: its backups and the value its last call returned
  backups, bakRet,
  \* MintReceiver: its fields and the value its last call returned
  requestQueue, receivedCount, recvRet,
  \* clock and step budget of a run
  now, steps

capVars == <<charge, threshold, activityLog, lastMintTime, capRet>>
bpVars == <<queue, processing, batchHistory, jobs, bpRet>>
minterVars == <<factoryLedger, totalMinted, inCirculation, mintingHistory,
                capacitorCharge>>
ledgerVars == <<ledger, merkleRoots, ledRet, appendsBy>>
callerVars == <<workload, submitted, processed>>
idVars == <<idCounter, batchCount>>
backupVars == <<backups, bakRet>>
receiverVars == <<requestQueue, receivedCount, recvRet>>
pipelineVars == <<bpVars, minterVars, ledgerVars, callerVars, idVars, backupVars,
                  receiverVars>>
vars == <<capVars, pipelineVars, arrivals, now, steps>>

Min(a, b) == IF a <= b THEN a ELSE b
Max(a, b) == IF a >= b THEN a ELSE b

\* JavaScript null / a value, as a sequence of length 0 / 1
Null == <<>>
Some(v) == <<v>>

\* The loops of the code over long arrays run here through the index range by
\* halves, the first half before the second: the iterations are those of the
\* loop, in its order, and their evaluation nests log n deep
\* arr.slice(-n)
SliceLast(s, n) == IF Len(s) <= n THEN s ELSE SubSeq(s, Len(s) - n + 1, Len(s))

----------------------------------------------------------------------------
(* Bounds of the model *)

MaxSteps == 4
MaxBatchSteps == 9
MaxBacklogSteps == 4
MaxBoostSteps == 3
MaxLiveSteps == 4
MaxGateSteps == 5
MaxCleanSteps == 4
BigBacklog == 101
MaxBackupSteps == 3
MaxResubmitSteps == 3
MaxReceiverSteps == 3
Backlog == 11
MaxLedgerSteps == 3
MaxTamperSteps == 4
Prefill == 98
MaxHistorySteps == 4
ShortLog == 8
LogPrefill == 99

(* Inputs *)
ActivityTypes == {"click", "scroll"}
Intensities == {0, 15, 100}
DecayRates == {-30, 1}
BoostAmounts == {-30, 50}
Thresholds == {0, 10}
TickSteps == {600}
BatchSizes == {0, 1, 2}
CapacitorActivities == {100}
Callers == {"batch", "other"}
TokenKinds == {"art", "alc", "draft"}
Prefills == {0, Prefill, Prefill + 100, Prefill + 150}
OpsPrefills == {0, Prefill + 2}
HistoryPrefills == {0, ShortLog, LogPrefill}
QueryFilters ==
  {[owner |-> "", type |-> "", fromIndex |-> Null, toIndex |-> Null],
   [owner |-> "alice", type |-> "", fromIndex |-> Some(1), toIndex |-> Null],
   [owner |-> "", type |-> "ALC", fromIndex |-> Null, toIndex |-> Some(2)],
   [owner |-> "alice", type |-> "ART", fromIndex |-> Some(0), toIndex |-> Some(1)]}
RandomSuffixes == {"k3x9", "p07q"}
SinceIndexes == {0, 2}
KeepLasts == {0, 1, 2}
TokenIds == {1, 2}

----------------------------------------------------------------------------
(* CapacitorMint *)

maxCharge == 100
chargeRate == 1
dischargeRate == 20
LogCapacity == 100

canMint_strict == charge > threshold

canMint == charge >= threshold

Deficit_swapped(c, t) == c - t

\* needed: this.threshold - this.charge
Deficit(c, t) == t - c

\* Math.min(this.maxCharge, this.charge + chargeAmount)
ChargeAfterActivity_unclamped(c, chargeAmount) == c + chargeAmount

ChargeAfterActivity(c, chargeAmount) == Min(maxCharge, c + chargeAmount)

\* Math.max(0, this.charge - this.dischargeRate)
ChargeAfterDischarge(c) == Max(0, c - dischargeRate)

\* Math.max(0, this.charge - decayRate)
ChargeAfterDecay(c, decayRate) == Max(0, c - decayRate)

\* Math.min(this.maxCharge, this.charge + amount)
ChargeAfterBoost(c, amount) == Min(maxCharge, c + amount)

\* push, then keep the last 100 entries
LogAfterPush_keepOldest(log, entry) ==
  LET pushed == Append(log, entry)
  IN IF Len(pushed) > LogCapacity THEN SubSeq(pushed, 1, LogCapacity) ELSE pushed

LogAfterPush(log, entry) ==
  LET pushed == Append(log, entry)
  IN IF Len(pushed) > LogCapacity THEN SliceLast(pushed, LogCapacity) ELSE pushed

\* config.capacitor_physics?.threshold || 100
CapInitWith(configured) ==
  /\ charge = 0
  /\ threshold = (IF configured # 0 THEN configured ELSE 100)
  /\ activityLog = <<>>
  /\ lastMintTime = Null
  /\ capRet = [op |-> "constructor"]

CapInit == \E configured \in Thresholds : CapInitWith(configured)

RegisterActivity(activityType, intensity) ==
  LET chargeAmount == intensity * chargeRate
      newCharge == ChargeAfterActivity(charge, chargeAmount)
  IN /\ charge' = newCharge
     /\ UNCHANGED <<threshold, lastMintTime>>
     /\ activityLog' = LogAfterPush(activityLog,
                         [type |-> activityType, intensity |-> intensity,
                          charge_added |-> chargeAmount, timestamp |-> now,
                          total_charge |-> newCharge])
     /\ capRet' = [op |-> "registerActivity", charge |-> newCharge,
                   can_mint |-> canMint']

AttemptMint ==
  IF ~canMint
  THEN /\ capRet' = [op |-> "attemptMint", success |-> FALSE,
                     error |-> "Insufficient capacitor charge",
                     charge |-> charge, threshold |-> threshold,
                     needed |-> Deficit(charge, threshold)]
       /\ UNCHANGED <<charge, threshold, activityLog, lastMintTime>>
  ELSE /\ charge' = ChargeAfterDischarge(charge)
       /\ lastMintTime' = Some(now)
       /\ capRet' = [op |-> "attemptMint", success |-> TRUE,
                     charge |-> charge', timestamp |-> now]
       /\ UNCHANGED <<threshold, activityLog>>

ApplyDecay(decayRate) ==
  /\ charge' = ChargeAfterDecay(charge, decayRate)
  /\ capRet' = [op |-> "applyDecay"]
  /\ UNCHANGED <<threshold, activityLog, lastMintTime>>

Boost(amount) ==
  /\ charge' = ChargeAfterBoost(charge, amount)
  /\ capRet' = [op |-> "boost", boosted |-> TRUE, boost_amount |-> amount,
                new_charge |-> charge']
  /\ UNCHANGED <<threshold, activityLog, lastMintTime>>

\* detectAbuse that never reports the repetitive pattern
detectAbuse_rapidOnly(log) ==
  IF Len(log) < 10 THEN [abuse_detected |-> FALSE]
  ELSE LET recentActivities == SliceLast(log, 10)
           timeSpan == recentActivities[Len(recentActivities)].timestamp
                         - recentActivities[1].timestamp
       IN IF timeSpan < 1000
          THEN [abuse_detected |-> TRUE, pattern |-> "rapid_fire",
                action |-> "throttle", cooldown |-> 5000]
          ELSE [abuse_detected |-> FALSE]

\* detectAbuse() on the activity log; a timestamp is the clock reading that
\* toISOString rendered, which new Date(a.timestamp).getTime() reads back
detectAbuse_repetitiveFirst(log) ==
  IF Len(log) < 10 THEN [abuse_detected |-> FALSE]
  ELSE LET recentActivities == SliceLast(log, 10)
           timeSpan == recentActivities[Len(recentActivities)].timestamp
                         - recentActivities[1].timestamp
           allSame == \A k \in 1..Len(recentActivities) :
                        recentActivities[k].type = recentActivities[1].type
       IN IF allSame /\ Len(recentActivities) > 8
          THEN [abuse_detected |-> TRUE, pattern |-> "repetitive",
                action |-> "require_variety", suggestion |-> "Vary activity types"]
          ELSE IF timeSpan < 1000
               THEN [abuse_detected |-> TRUE, pattern |-> "rapid_fire",
                     action |-> "throttle", cooldown |-> 5000]
               ELSE [abuse_detected |-> FALSE]

detectAbuse(log) ==
  IF Len(log) < 10 THEN [abuse_detected |-> FALSE]
  ELSE LET recentActivities == SliceLast(log, 10)
           timeSpan == recentActivities[Len(recentActivities)].timestamp
                         - recentActivities[1].timestamp
           allSame == \A k \in 1..Len(recentActivities) :
                        recentActivities[k].type = recentActivities[1].type
       IN IF timeSpan < 1000
          THEN [abuse_detected |-> TRUE, pattern |-> "rapid_fire",
                action |-> "throttle", cooldown |-> 5000]
          ELSE IF allSame /\ Len(recentActivities) > 8
               THEN [abuse_detected |-> TRUE, pattern |-> "repetitive",
                     action |-> "require_variety", suggestion |-> "Vary activity types"]
               ELSE [abuse_detected |-> FALSE]

\* detectAbuse that empties the history it reported on
DetectAbuse_clearing ==
  /\ capRet' = [op |-> "detectAbuse"] @@ detectAbuse(activityLog)
  /\ activityLog' = (IF detectAbuse(activityLog).abuse_detected THEN <<>> ELSE activityLog)
  /\ UNCHANGED <<charge, threshold, lastMintTime>>

DetectAbuse ==
  /\ capRet' = [op |-> "detectAbuse"] @@ detectAbuse(activityLog)
  /\ UNCHANGED <<charge, threshold, activityLog, lastMintTime>>

Reset ==
  /\ charge' = 0
  /\ activityLog' = <<>>
  /\ lastMintTime' = Null
  /\ capRet' = [op |-> "reset"]
  /\ UNCHANGED threshold

----------------------------------------------------------------------------
(* Clock *)

Tick(d) == now' = now + d

----------------------------------------------------------------------------
(* Configuration (.infinity/minting-rules.json, .infinity/alc-config.json) *)

\* rules.token_types, rules.token_structure, rules.validation_rules
rules ==
  [token_types |-> [ART |-> [mintable |-> TRUE, transferable |-> TRUE,
                             burnable |-> FALSE],
                    RECEIPT |-> [mintable |-> TRUE, transferable |-> FALSE,
                                 burnable |-> FALSE],
                    FEATURE |-> [mintable |-> FALSE, transferable |-> FALSE,
                                 burnable |-> TRUE]],
   required_fields |-> {"id", "type", "timestamp", "owner", "value"},
   immutable |-> TRUE,
   require_owner |-> TRUE,
   min_value |-> 0,
   max_value |-> 1000]

\* config.minting_triggers, config.capacitor_physics
alcConfig ==
  [minting_triggers |-> [user_contribution |-> [enabled |-> TRUE, base_amount |-> 10],
                         purchase |-> [enabled |-> TRUE, base_amount |-> 1],
                         achievement |-> [enabled |-> FALSE, base_amount |-> 5]],
   threshold |-> 100]

----------------------------------------------------------------------------
(* Requests. A field a request does not carry holds the falsy value of its  *)
(* type ("" or 0): the code only tests such fields for truthiness.          *)

ReqArt == [type |-> "ART", owner |-> "alice", value |-> 5, amount |-> 0,
           trigger |-> ""]
ReqUnknown == [type |-> "NOPE", owner |-> "alice", value |-> 5, amount |-> 0,
               trigger |-> ""]
ReqAlc == [type |-> "ALC", owner |-> "bob", value |-> 0, amount |-> 0,
           trigger |-> "purchase"]
ReqUntyped == [type |-> "", owner |-> "", value |-> 0, amount |-> 3,
               trigger |-> "purchase"]

\* The k-th request the callers submit, for each workload
Workloads == 1..4
LongWorkloads == 1..2

WorkloadRequest(w, k) ==
  CASE w = 1 -> IF k = 5 THEN ReqUnknown ELSE ReqArt
    [] w = 2 -> IF k = 1 THEN ReqAlc ELSE ReqArt
    [] w = 3 -> CASE k % 4 = 1 -> ReqAlc
                  [] k % 4 = 2 -> ReqUnknown
                  [] k % 4 = 3 -> ReqUntyped
                  [] OTHER -> ReqArt
    [] OTHER -> ReqAlc

----------------------------------------------------------------------------
(* TokenFactory *)

\* validateToken: every required field truthy, owner present, value in range
validateToken(token) ==
  /\ \A f \in rules.required_fields :
       CASE f = "owner" -> token.owner # ""
         [] f = "value" -> token.value # 0
         [] f = "type" -> token.type # ""
         [] OTHER -> TRUE
  /\ (rules.require_owner => token.owner # "")
  /\ ~(token.value < rules.min_value)
  /\ ~(token.value > rules.max_value)

\* createToken: the token it returns, or the message of the Error it throws.
\* Ids are fresh: id is the number of ids handed out before, plus one.
FactoryCreateToken(request, id, time) ==
  IF request.type \notin DOMAIN rules.token_types
  THEN [ok |-> FALSE, message |-> "Unknown token type"]
  ELSE IF ~rules.token_types[request.type].mintable
  THEN [ok |-> FALSE, message |-> "Token type is not mintable"]
  ELSE LET token == [id |-> id, type |-> request.type, timestamp |-> time,
                     owner |-> request.owner, value |-> request.value,
                     transferable |-> rules.token_types[request.type].transferable,
                     burnable |-> rules.token_types[request.type].burnable,
                     immutable |-> rules.immutable]
       IN IF ~validateToken(token)
          THEN [ok |-> FALSE, message |-> "Token validation failed"]
          ELSE [ok |-> TRUE, token |-> token]

----------------------------------------------------------------------------
(* ALCMinter *)

validateMintRequest(request) ==
  /\ request.trigger # ""
  /\ request.owner # ""
  /\ request.trigger \in DOMAIN alcConfig.minting_triggers
  /\ alcConfig.minting_triggers[request.trigger].enabled

checkCapacitorCharge(cc) == cc >= alcConfig.threshold

\* Math.min(100, this.capacitorCharge + activity)
ChargedCapacitor(cc, activity) == Min(100, cc + activity)

\* a discharge that leaves the capacitor charged
DischargedCapacitor_kept(cc) == cc

\* Math.max(0, this.capacitorCharge - 20)
DischargedCapacitor(cc) == Max(0, cc - 20)

\* createToken that leaves the token unmarked
AlcCreateToken_unmarked(request, id, time) ==
  [id |-> id, type |-> "ALC",
   value |-> IF request.amount # 0 THEN request.amount
             ELSE alcConfig.minting_triggers[request.trigger].base_amount,
   owner |-> request.owner, trigger |-> request.trigger, timestamp |-> time,
   immutable |-> FALSE]

\* ALCMinter.createToken
AlcCreateToken(request, id, time) ==
  [id |-> id, type |-> "ALC",
   value |-> IF request.amount # 0 THEN request.amount
             ELSE alcConfig.minting_triggers[request.trigger].base_amount,
   owner |-> request.owner, trigger |-> request.trigger, timestamp |-> time,
   immutable |-> TRUE]

\* mint(request) on the minter state m = [totalMinted, inCirculation,
\* mintingHistory, capacitorCharge]: the result it resolves to and the state
\* it leaves
AlcMint(m, request, id, time) ==
  IF ~validateMintRequest(request)
  THEN [result |-> [success |-> FALSE, error |-> "Invalid mint request"], minter |-> m]
  ELSE IF ~checkCapacitorCharge(m.capacitorCharge)
  THEN [result |-> [success |-> FALSE, error |-> "Insufficient capacitor charge"],
        minter |-> m]
  ELSE LET token == AlcCreateToken(request, id, time)
       IN [result |-> [success |-> TRUE, token |-> token],
           minter |-> [totalMinted |-> m.totalMinted + token.value,
                       inCirculation |-> m.inCirculation + token.value,
                       mintingHistory |-> Append(m.mintingHistory, token),
                       capacitorCharge |-> DischargedCapacitor(m.capacitorCharge)]]

MinterInit ==
  /\ factoryLedger = <<>>
  /\ totalMinted = 0
  /\ inCirculation = 0
  /\ mintingHistory = <<>>
  /\ capacitorCharge = 0

\* chargeCapacitor(activity), also reached through ALCMinter.registerActivity
ChargeCapacitor(activity) ==
  /\ capacitorCharge' = ChargedCapacitor(capacitorCharge, activity)
  /\ UNCHANGED <<factoryLedger, totalMinted, inCirculation, mintingHistory>>

----------------------------------------------------------------------------
(* BatchProcessor *)

maxBatchSize == 100
HistoryCapacity == 50
AutoProcessMin == 10

\* Fields of the BatchProcessor's collaborators that a processBatch call
\* changes, and those no BatchProcessor method touches
loopVars == <<factoryLedger, totalMinted, inCirculation, mintingHistory,
              capacitorCharge, idCounter, processed>>

\* { ...request, queued_at, status: 'queued' }
QueueEntry(request, time) ==
  [queued_at |-> time, status |-> "queued"] @@ request

\* position: the queue length after the push; estimated_wait is a tenth of it
AddToQueueReturn(length) ==
  [op |-> "addToQueue", success |-> TRUE, position |-> length,
   estimated_wait_tenths |-> length]

AddToQueue(request) ==
  /\ queue' = Append(queue, QueueEntry(request, now))
  /\ bpRet' = AddToQueueReturn(Len(queue'))
  /\ UNCHANGED <<processing, batchHistory, jobs>>

BatchInFlight_never == FALSE

\* if (this.processing)
BatchInFlight == processing

\* batchSize || this.maxBatchSize, capped by the queue length
BatchSizeFor(batchSize, queueLength) ==
  Min(IF batchSize # 0 THEN batchSize ELSE maxBatchSize, queueLength)

DrainedItems_fromEnd(q, size) == SubSeq(q, Len(q) - size + 1, Len(q))

\* this.queue.splice(0, size): the items it returns ...
DrainedItems(q, size) == SubSeq(q, 1, size)

\* a splice that leaves the taken items in the queue
RemainingItems_keepsTaken(q, size) == q

\* ... and the items it leaves in the queue
RemainingItems(q, size) == SubSeq(q, size + 1, Len(q))

\* What a caller gets: processBatch's result, which mushroomBoost spreads into
\* an object of its own
ReturnValue(caller, result) ==
  IF caller = "mushroomBoost"
  THEN [op |-> caller, boost |-> "mushroom",
        message |-> "Mama mia! Batch boost complete!"] @@ result
  ELSE [op |-> caller] @@ result

\* The for loop of processBatch from item st.i on, up to the next await (the
\* call of alcMinter.mint has run, its result is pending) or to the loop's end.
\* st carries the loop's locals and the collaborators' fields.
RECURSIVE RunLoop(_)
RunLoop(st) ==
  IF st.i >= Len(st.batch)
  THEN [st EXCEPT !.phase = "done"]
  ELSE LET request == st.batch[st.i + 1]
       IN IF request.type = "ALC" \/ request.type = ""
          THEN LET r == AlcMint(st.minter, request, st.idCounter + 1, now)
               IN [st EXCEPT !.phase = "await",
                             !.pending = <<r.result>>,
                             !.minter = r.minter,
                             !.idCounter = IF r.result.success THEN @ + 1 ELSE @,
                             !.processed = Append(@, request)]
          ELSE LET r == FactoryCreateToken(request, st.idCounter + 1, now)
               IN RunLoop([st EXCEPT
                    !.i = @ + 1,
                    !.tokens = IF r.ok THEN Append(@, r.token) ELSE @,
                    !.errors = IF r.ok THEN @
                               ELSE Append(@, [index |-> st.i, request |-> request,
                                               error |-> r.message]),
                    !.factoryLedger = IF r.ok THEN Append(@, r.token) ELSE @,
                    !.idCounter = IF r.ok THEN @ + 1 ELSE @,
                    !.processed = Append(@, request)])

AfterAwait_dropFailure(st) ==
  LET result == st.pending[1]
  IN [st EXCEPT
        !.phase = "run",
        !.pending = <<>>,
        !.i = @ + 1,
        !.tokens = IF result.success THEN Append(@, result.token) ELSE @]

\* The loop body after `await this.alcMinter.mint(request)` has its result
AfterAwait(st) ==
  LET result == st.pending[1]
      request == st.batch[st.i + 1]
  IN [st EXCEPT
        !.phase = "run",
        !.pending = <<>>,
        !.i = @ + 1,
        !.tokens = IF result.success THEN Append(@, result.token) ELSE @,
        !.errors = IF result.success THEN @
                   ELSE Append(@, [index |-> st.i, request |-> request,
                                   error |-> result.error])]

\* The loop state of a call: its locals, and the collaborators as they stand
LoopState(locals) ==
  locals @@ [factoryLedger |-> factoryLedger,
             minter |-> [totalMinted |-> totalMinted, inCirculation |-> inCirculation,
                         mintingHistory |-> mintingHistory,
                         capacitorCharge |-> capacitorCharge],
             idCounter |-> idCounter,
             processed |-> processed]

Results(st) ==
  [batch_id |-> st.batch_id, timestamp |-> st.timestamp, size |-> st.size,
   tokens |-> st.tokens, errors |-> st.errors]

\* A completion that leaves the in-flight flag as it is
Leave_flagStuck(st, otherJobs) ==
  /\ factoryLedger' = st.factoryLedger
  /\ totalMinted' = st.minter.totalMinted
  /\ inCirculation' = st.minter.inCirculation
  /\ mintingHistory' = st.minter.mintingHistory
  /\ capacitorCharge' = st.minter.capacitorCharge
  /\ idCounter' = st.idCounter
  /\ processed' = st.processed
  /\ IF st.phase = "done"
     THEN /\ processing' = processing
          /\ batchHistory' = LET pushed == Append(batchHistory, Results(st))
                             IN IF Len(pushed) > HistoryCapacity
                                THEN SliceLast(pushed, HistoryCapacity) ELSE pushed
          /\ jobs' = otherJobs
          /\ bpRet' = ReturnValue(st.caller, Results(st))
     ELSE /\ jobs' = Append(otherJobs,
                       [caller |-> st.caller, batch_id |-> st.batch_id,
                        timestamp |-> st.timestamp, size |-> st.size,
                        batch |-> st.batch, i |-> st.i, tokens |-> st.tokens,
                        errors |-> st.errors, pending |-> st.pending,
                        phase |-> st.phase])
          /\ UNCHANGED <<batchHistory, bpRet>>

\* The state a call leaves when it suspends at an await or runs to its end:
\* otherJobs are the other suspended calls
Leave(st, otherJobs) ==
  /\ factoryLedger' = st.factoryLedger
  /\ totalMinted' = st.minter.totalMinted
  /\ inCirculation' = st.minter.inCirculation
  /\ mintingHistory' = st.minter.mintingHistory
  /\ capacitorCharge' = st.minter.capacitorCharge
  /\ idCounter' = st.idCounter
  /\ processed' = st.processed
  /\ IF st.phase = "done"
     THEN /\ processing' = FALSE
          /\ batchHistory' = LET pushed == Append(batchHistory, Results(st))
                             IN IF Len(pushed) > HistoryCapacity
                                THEN SliceLast(pushed, HistoryCapacity) ELSE pushed
          /\ jobs' = otherJobs
          /\ bpRet' = ReturnValue(st.caller, Results(st))
     ELSE /\ jobs' = Append(otherJobs,
                       [caller |-> st.caller, batch_id |-> st.batch_id,
                        timestamp |-> st.timestamp, size |-> st.size,
                        batch |-> st.batch, i |-> st.i, tokens |-> st.tokens,
                        errors |-> st.errors, pending |-> st.pending,
                        phase |-> st.phase])
          /\ UNCHANGED <<batchHistory, bpRet>>

\* processBatch(batchSize), called directly or by autoProcess or mushroomBoost,
\* up to its first await or its return
ProcessBatch(caller, batchSize) ==
  IF BatchInFlight
  THEN /\ bpRet' = ReturnValue(caller, [error |-> "Batch already processing"])
       /\ UNCHANGED <<queue, processing, batchHistory, jobs, batchCount, loopVars>>
  ELSE LET size == BatchSizeFor(batchSize, Len(queue))
       IN IF size = 0
          THEN /\ bpRet' = ReturnValue(caller, [message |-> "Queue is empty"])
               /\ UNCHANGED <<queue, processing, batchHistory, jobs, batchCount,
                              loopVars>>
          ELSE LET st == RunLoop(LoopState(
                            [caller |-> caller, batch_id |-> batchCount + 1,
                             timestamp |-> now, size |-> size,
                             batch |-> DrainedItems(queue, size), i |-> 0,
                             tokens |-> <<>>, errors |-> <<>>, pending |-> <<>>,
                             phase |-> "run"]))
               IN /\ queue' = RemainingItems(queue, size)
                  /\ batchCount' = batchCount + 1
                  /\ IF st.phase = "done" THEN TRUE ELSE processing' = TRUE
                  /\ Leave(st, jobs)

\* A suspended processBatch call goes on from its await to the next one or to
\* its return
Resume(k) ==
  /\ k \in 1..Len(jobs)
  /\ LET st == RunLoop(AfterAwait(LoopState(jobs[k])))
         otherJobs == [n \in 1..(Len(jobs) - 1) |->
                         IF n < k THEN jobs[n] ELSE jobs[n + 1]]
     IN /\ Leave(st, otherJobs)
        /\ IF st.phase = "done" THEN TRUE ELSE UNCHANGED processing
  /\ UNCHANGED <<queue, batchCount>>

\* autoProcess without the minimum queue length
AutoProcess_anyLength == ProcessBatch("autoProcess", 10)

AutoProcess ==
  IF Len(queue) >= AutoProcessMin
  THEN ProcessBatch("autoProcess", 10)
  ELSE /\ bpRet' = [op |-> "autoProcess",
                    message |-> "Queue too small for auto-processing"]
       /\ UNCHANGED <<queue, processing, batchHistory, jobs, batchCount, loopVars>>

\* mushroomBoost that leaves the batch size to processBatch's default
MushroomBoost_capped ==
  IF Len(queue) = 0
  THEN /\ bpRet' = [op |-> "mushroomBoost", message |-> "Queue is empty"]
       /\ UNCHANGED <<queue, processing, batchHistory, jobs, batchCount, loopVars>>
  ELSE ProcessBatch("mushroomBoost", 0)

MushroomBoost ==
  IF Len(queue) = 0
  THEN /\ bpRet' = [op |-> "mushroomBoost", message |-> "Queue is empty"]
       /\ UNCHANGED <<queue, processing, batchHistory, jobs, batchCount, loopVars>>
  ELSE ProcessBatch("mushroomBoost", Len(queue))

\* clearQueue that also forgets the batch in flight
ClearQueue_dropsInFlight ==
  /\ queue' = <<>>
  /\ bpRet' = [op |-> "clearQueue", cleared |-> Len(queue)]
  /\ jobs' = <<>>
  /\ UNCHANGED <<processing, batchHistory>>

ClearQueue ==
  /\ queue' = <<>>
  /\ bpRet' = [op |-> "clearQueue", cleared |-> Len(queue)]
  /\ UNCHANGED <<processing, batchHistory, jobs>>

----------------------------------------------------------------------------
(* ImmutableLedger *)

\* Strings that the ledger reads character by character are sequences of
\* UTF-16 code units; CharCodes gives the code units of the strings that the
\* tokens of the model carry
CharCodes(s) ==
  CASE s = "ART" -> <<65, 82, 84>>
    [] s = "ALC" -> <<65, 76, 67>>
    [] s = "alice" -> <<97, 108, 105, 99, 101>>
    [] s = "bob" -> <<98, 111, 98>>
    [] s = "" -> <<>>

\* String(n) of a non-negative integer: its decimal digits
RECURSIVE Digits(_)
Digits(n) == IF n < 10 THEN <<48 + n>> ELSE Append(Digits(n \div 10), 48 + (n % 10))

\* str.padStart(width, '0')
PadStart(codes, width) ==
  IF Len(codes) >= width THEN codes
  ELSE [k \in 1..(width - Len(codes)) |-> 48] \o codes

\* new Date(ms).toISOString() for a clock that starts at the epoch and stays
\* within its first hour: 1970-01-01T00:MM:SS.mmmZ
IsoString(ms) ==
  <<49, 57, 55, 48, 45, 48, 49, 45, 48, 49, 84, 48, 48, 58>>
    \o PadStart(Digits((ms \div 60000) % 60), 2) \o <<58>>
    \o PadStart(Digits((ms \div 1000) % 60), 2) \o <<46>>
    \o PadStart(Digits(ms % 1000), 3) \o <<90>>

\* A 32-bit integer is the pair <<high 16 bits, low 16 bits>> of its two's
\* complement representation
Int32Zero == <<0, 0>>

\* hash = ((hash << 5) - hash) + char; hash = hash & hash:
\* 31 * hash + char, truncated to 32 bits
HashStep(h, char) ==
  LET lo == h[2] * 31 + char
      hi == h[1] * 31 + (lo \div 65536)
  IN <<hi % 65536, lo % 65536>>

\* the iterations a..b (1-based) of the for loop over data.charCodeAt(i),
\* from the hash h
RECURSIVE HashRange(_, _, _, _)
HashRange(h, data, a, b) ==
  IF a > b THEN h
  ELSE IF a = b THEN HashStep(h, data[a])
       ELSE LET m == (a + b) \div 2
            IN CHOOSE r \in {HashRange(left, data, m + 1, b) :
                               left \in {HashRange(h, data, a, m)}} : TRUE

HashLoop(h, data) == HashRange(h, data, 1, Len(data))

\* Math.abs(hash) of the signed 32-bit value, a number in 0..2^31
Abs32(h) ==
  IF h[1] < 32768 THEN h
  ELSE IF h[2] = 0 THEN <<(65536 - h[1]) % 65536, 0>>
       ELSE <<65535 - h[1], 65536 - h[2]>>

\* n.toString(16) of a number below 16^digits, with its leading zeros
RECURSIVE HexDigits(_, _)
HexDigits(n, digits) ==
  IF digits = 0 THEN <<>>
  ELSE LET d == n % 16
       IN Append(HexDigits(n \div 16, digits - 1), IF d < 10 THEN 48 + d ELSE 87 + d)

\* `0x${Math.abs(hash).toString(16).padStart(width, '0')}`
HexString(h, width) ==
  LET a == Abs32(h)
  IN <<48, 120>> \o PadStart(HexDigits(a[1], 4) \o HexDigits(a[2], 4), width)

\* `${token.id}${token.type}${token.owner}${token.value}${token.timestamp}`
TokenData(token) ==
  Digits(token.id) \o CharCodes(token.type) \o CharCodes(token.owner)
    \o Digits(token.value) \o IsoString(token.timestamp)

calculateHash(token) == HexString(HashLoop(Int32Zero, TokenData(token)), 16)

\* previous_hash of the first entry: '0'
GenesisHash == <<48>>

\* a Merkle root every 100 entries
SealEvery == 100

\* index: this.ledger.length
EntryIndex_oneBased(l) == Len(l) + 1

EntryIndex(l) == Len(l)

\* this.ledger.length > 0 ? this.ledger[this.ledger.length - 1].hash : '0'
PreviousHash_genesis(l) == GenesisHash

PreviousHash(l) == IF Len(l) > 0 THEN l[Len(l)].hash ELSE GenesisHash

\* if (!token.immutable)
Rejected_never(token) == FALSE

Rejected(token) == ~token.immutable

\* const entry = {...}; an entry has no merkle_root until it is sealed
NewEntry(l, token, time) ==
  [index |-> EntryIndex(l),
   token_id |-> token.id,
   token_type |-> token.type,
   owner |-> token.owner,
   value |-> token.value,
   timestamp |-> time,
   added_at |-> time,
   hash |-> calculateHash(token),
   previous_hash |-> PreviousHash(l),
   immutable |-> TRUE,
   sealed |-> FALSE,
   merkle_root |-> Null]

\* the for loop over batch.map(entry => entry.hash).join(''), entry by entry:
\* the hashes of entries a..b of the batch, from the hash h
RECURSIVE BatchHashRange(_, _, _, _)
BatchHashRange(h, batch, a, b) ==
  IF a > b THEN h
  ELSE IF a = b THEN HashLoop(h, batch[a].hash)
       ELSE LET m == (a + b) \div 2
            IN CHOOSE r \in {BatchHashRange(left, batch, m + 1, b) :
                               left \in {BatchHashRange(h, batch, a, m)}} : TRUE

calculateBatchHash(batch) ==
  HexString(BatchHashRange(Int32Zero, batch, 1, Len(batch)), 32)

\* `MERKLE_${Date.now()}`
RootId(time) == <<77, 69, 82, 75, 76, 69, 95>> \o Digits(time)

\* Math.max(0, lastIndex - 100)
BatchStart_overlapping(lastIndex) == Max(0, lastIndex - 101)

BatchStart(lastIndex) == Max(0, lastIndex - 100)

\* createMerkleRoot on the ledger state L = [ledger, merkleRoots]: the state
\* it leaves and the root it returns
SealedState(L, time) ==
  LET lastIndex == Len(L.ledger)
      batchStart == BatchStart(lastIndex)
      batch == SubSeq(L.ledger, batchStart + 1, lastIndex)
      merkleRoot == [root_id |-> RootId(time),
                     batch_start |-> batchStart,
                     batch_end |-> lastIndex - 1,
                     batch_size |-> Len(batch),
                     timestamp |-> time,
                     root_hash |-> calculateBatchHash(batch),
                     sealed |-> TRUE,
                     immutable |-> TRUE]
  IN [ledger |-> [k \in 1..lastIndex |->
                    IF k - 1 >= batchStart
                    THEN [L.ledger[k] EXCEPT !.sealed = TRUE,
                                             !.merkle_root = Some(merkleRoot.root_id)]
                    ELSE L.ledger[k]],
      merkleRoots |-> Append(L.merkleRoots, merkleRoot),
      root |-> merkleRoot]

\* if (this.ledger.length % 100 === 0)
SealDue_never(length) == FALSE

SealDue(length) == length % SealEvery = 0

\* addToken of an immutable token on the ledger state L
AppendedState(L, token, time) ==
  LET pushed == Append(L.ledger, NewEntry(L.ledger, token, time))
  IN IF SealDue(Len(pushed))
     THEN LET S == SealedState([ledger |-> pushed, merkleRoots |-> L.merkleRoots], time)
          IN [ledger |-> S.ledger, merkleRoots |-> S.merkleRoots]
     ELSE [ledger |-> pushed, merkleRoots |-> L.merkleRoots]

\* A reference to the entry object at position i (0-based) of this.ledger
EntryRef(i) == [entry_at |-> i]

\* A reference to an array that the ledger owns
ArrayRef(field) == [array |-> field]

LedgerInit ==
  /\ ledger = <<>>
  /\ merkleRoots = <<>>
  /\ ledRet = [op |-> "constructor"]
  /\ appendsBy = [c \in {"batch", "other"} |-> 0]

\* addToken(token), called by caller; it returns the entry object it pushed
AddToken(caller, token) ==
  IF Rejected(token)
  THEN /\ ledRet' = [op |-> "addToken", threw |-> TRUE,
                     error |-> "Only immutable tokens can be added to ledger"]
       /\ UNCHANGED <<ledger, merkleRoots, appendsBy>>
  ELSE LET S == AppendedState([ledger |-> ledger, merkleRoots |-> merkleRoots],
                              token, now)
       IN /\ ledger' = S.ledger
          /\ merkleRoots' = S.merkleRoots
          /\ ledRet' = [op |-> "addToken", threw |-> FALSE,
                        entry |-> EntryRef(Len(S.ledger) - 1)]
          /\ appendsBy' = [appendsBy EXCEPT ![caller] = @ + 1]

\* createMerkleRoot(), called from outside the ledger
CreateMerkleRoot ==
  LET S == SealedState([ledger |-> ledger, merkleRoots |-> merkleRoots], now)
  IN /\ ledger' = S.ledger
     /\ merkleRoots' = S.merkleRoots
     /\ ledRet' = [op |-> "createMerkleRoot", root |-> S.root]
     /\ UNCHANGED appendsBy

\* an iteration that counts a broken link as verified
VerifyStep_forgiving(results, l, i) ==
  [results EXCEPT !.verified_entries = @ + 1]

\* one iteration of the loop of verifyIntegrity, at index i >= 1
VerifyStep_firstOnly(results, l, i) ==
  LET current == l[i + 1]
      previous == l[i]
  IN IF current.previous_hash # previous.hash
     THEN IF results.valid
          THEN [results EXCEPT
                  !.valid = FALSE,
                  !.errors = Append(@, [index |-> i, error |-> "Hash chain broken",
                                        expected |-> previous.hash,
                                        actual |-> current.previous_hash])]
          ELSE results
     ELSE [results EXCEPT !.verified_entries = @ + 1]

VerifyStep(results, l, i) ==
  LET current == l[i + 1]
      previous == l[i]
  IN IF current.previous_hash # previous.hash
     THEN [results EXCEPT
             !.valid = FALSE,
             !.errors = Append(@, [index |-> i, error |-> "Hash chain broken",
                                   expected |-> previous.hash,
                                   actual |-> current.previous_hash])]
     ELSE [results EXCEPT !.verified_entries = @ + 1]

\* the iterations i = a..b of for (let i = 1; i < this.ledger.length; i++)
RECURSIVE VerifyLoop(_, _, _, _)
VerifyLoop(results, l, a, b) ==
  IF a > b THEN results
  ELSE IF a = b THEN VerifyStep(results, l, a)
       ELSE LET m == (a + b) \div 2
            IN CHOOSE r \in {VerifyLoop(left, l, m + 1, b) :
                               left \in {VerifyLoop(results, l, a, m)}} : TRUE

verifyIntegrity(l) ==
  VerifyLoop([valid |-> TRUE, total_entries |-> Len(l), verified_entries |-> 0,
              errors |-> <<>>], l, 1, Len(l) - 1)

VerifyIntegrity ==
  /\ ledRet' = [op |-> "verifyIntegrity"] @@ verifyIntegrity(ledger)
  /\ UNCHANGED <<ledger, merkleRoots, appendsBy>>

\* query({owner, type, fromIndex, toIndex}): a filter that the caller does not
\* pass is "" (owner, type) or Null (fromIndex, toIndex)
QueryMatches_ignoresOwner(e, filter) ==
  /\ filter.type # "" => e.token_type = filter.type
  /\ filter.fromIndex # Null => e.index >= filter.fromIndex[1]
  /\ filter.toIndex # Null => e.index <= filter.toIndex[1]

QueryMatches(e, filter) ==
  /\ filter.owner # "" => e.owner = filter.owner
  /\ filter.type # "" => e.token_type = filter.type
  /\ filter.fromIndex # Null => e.index >= filter.fromIndex[1]
  /\ filter.toIndex # Null => e.index <= filter.toIndex[1]

\* the entries at positions a..b (1-based) that pass the filters, in order
RECURSIVE QueryRange(_, _, _, _)
QueryRange(l, filter, a, b) ==
  IF a > b THEN <<>>
  ELSE IF a = b
       THEN IF QueryMatches(l[a], filter) THEN <<EntryRef(a - 1)>> ELSE <<>>
       ELSE LET m == (a + b) \div 2
            IN QueryRange(l, filter, a, m) \o QueryRange(l, filter, m + 1, b)

Query(filter) ==
  /\ ledRet' = [op |-> "query", results |-> QueryRange(ledger, filter, 1, Len(ledger))]
  /\ UNCHANGED <<ledger, merkleRoots, appendsBy>>

\* this.ledger.reduce((sum, e) => sum + e.value, 0)
RECURSIVE TotalValue(_, _, _, _)
TotalValue(sum, l, a, b) ==
  IF a > b THEN sum
  ELSE IF a = b THEN sum + l[a].value
       ELSE LET m == (a + b) \div 2
            IN CHOOSE r \in {TotalValue(left, l, m + 1, b) :
                               left \in {TotalValue(sum, l, a, m)}} : TRUE

getStats ==
  [total_entries |-> Len(ledger),
   total_value |-> TotalValue(0, ledger, 1, Len(ledger)),
   merkle_roots |-> Len(merkleRoots),
   sealed_entries |-> Cardinality({k \in DOMAIN ledger : ledger[k].sealed}),
   by_type |-> [t \in {ledger[k].token_type : k \in DOMAIN ledger} |->
                  Cardinality({k \in DOMAIN ledger : ledger[k].token_type = t})],
   integrity |-> verifyIntegrity(ledger).valid]

GetStats ==
  /\ ledRet' = [op |-> "getStats", stats |-> getStats]
  /\ UNCHANGED <<ledger, merkleRoots, appendsBy>>

\* exportLedger(): the export holds the ledger's own arrays
exportLedger ==
  [version |-> "1.0.0", exported_at |-> now,
   ledger |-> ArrayRef("ledger"),
   merkle_roots |-> ArrayRef("merkleRoots"),
   stats |-> getStats]

ExportLedger ==
  /\ ledRet' = [op |-> "exportLedger"] @@ exportLedger
  /\ UNCHANGED <<ledger, merkleRoots, appendsBy>>

\* A caller assigns a field of an entry object that addToken, query or
\* exportLedger handed to it
Tamper(i, field, value) ==
  /\ i < Len(ledger)
  /\ ledger' = [ledger EXCEPT ![i + 1] =
                  IF field = "hash" THEN [@ EXCEPT !.hash = value]
                  ELSE [@ EXCEPT !.previous_hash = value]]
  /\ ledRet' = [op |-> "assignment"]
  /\ UNCHANGED <<merkleRoots, appendsBy>>

----------------------------------------------------------------------------
(* BackupSystem *)

BackupCapacity == 50

\* The array that a reference held by an export stands for, as it is now
Deref(ref) == IF ref.array = "ledger" THEN ledger ELSE merkleRoots

\* MultiLocationWriter.getWriteStats() of a writer that has written nothing
getWriteStats ==
  [total_writes |-> 0, locations |-> 8, recent_writes |-> <<>>]

\* `BACKUP_${Date.now()}_${Math.random().toString(36).substring(2, 9)}`
generateBackupId(time, suffix) == <<"BACKUP", time, suffix>>

\* JSON.stringify(backup.data).length: the model measures the serialized text
\* by the entries and digests it holds at the time of the call
SerializedSize(data) ==
  IF "ledger" \in DOMAIN data
  THEN Len(Deref(data.ledger.ledger)) + Len(Deref(data.ledger.merkle_roots))
  ELSE Len(data.entries)

BackupInit ==
  /\ backups = <<>>
  /\ bakRet = [op |-> "constructor"]

\* createFullBackup(): the backup stores what exportLedger returns
CreateFullBackup(suffix) ==
  LET data == [ledger |-> exportLedger, write_stats |-> getWriteStats]
      backup == [backup_id |-> generateBackupId(now, suffix),
                 timestamp |-> IsoString(now), type |-> "full", data |-> data,
                 size |-> SerializedSize(data), compressed |-> FALSE]
      pushed == Append(backups, backup)
  IN /\ backups' = (IF Len(pushed) > BackupCapacity
                    THEN SliceLast(pushed, BackupCapacity) ELSE pushed)
     /\ bakRet' = [op |-> "createFullBackup", backup |-> backup]
     /\ ledRet' = [op |-> "exportLedger"] @@ exportLedger
     /\ UNCHANGED <<ledger, merkleRoots, appendsBy>>

\* createIncrementalBackup(sinceIndex): this.immutableLedger.ledger.slice(
\* sinceIndex) is a new array of the ledger's own entry objects
CreateIncrementalBackup(sinceIndex, suffix) ==
  LET newEntries == [k \in 1..(Len(ledger) - sinceIndex) |->
                       EntryRef(sinceIndex + k - 1)]
      data == [entries |-> newEntries]
      backup == [backup_id |-> generateBackupId(now, suffix),
                 timestamp |-> IsoString(now), type |-> "incremental",
                 since_index |-> sinceIndex, data |-> data,
                 size |-> SerializedSize(data), compressed |-> FALSE]
  IN /\ backups' = Append(backups, backup)
     /\ bakRet' = [op |-> "createIncrementalBackup", backup |-> backup]
     /\ UNCHANGED ledgerVars

\* entries: b.type === 'full' ? b.data.ledger.ledger.length
\*                            : b.data.entries.length
BackupEntries(b) ==
  IF b.type = "full" THEN Len(Deref(b.data.ledger.ledger)) ELSE Len(b.data.entries)

ListBackups ==
  /\ bakRet' = [op |-> "listBackups",
                list |-> [k \in 1..Len(backups) |->
                            [backup_id |-> backups[k].backup_id,
                             timestamp |-> backups[k].timestamp,
                             type |-> backups[k].type,
                             size |-> backups[k].size,
                             entries |-> BackupEntries(backups[k])]]]
  /\ UNCHANGED <<backups, ledgerVars>>

\* arr.slice(start): a negative start counts from the end, and -0 is 0
SliceFrom(s, start) ==
  LET from == IF start < 0 THEN Max(Len(s) + start, 0) ELSE Min(start, Len(s))
  IN SubSeq(s, from + 1, Len(s))

\* cleanOldBackups(keepLast)
CleanOldBackups(keepLast) ==
  LET removed == Len(backups) - keepLast
  IN /\ IF removed > 0
        THEN /\ backups' = SliceFrom(backups, 0 - keepLast)
             /\ bakRet' = [op |-> "cleanOldBackups", removed |-> removed]
        ELSE /\ backups' = backups
             /\ bakRet' = [op |-> "cleanOldBackups", removed |-> 0]
     /\ UNCHANGED ledgerVars

----------------------------------------------------------------------------
(* MintReceiver *)

\* config.receives_from
receives_from ==
  <<[source |-> "dash-hub", priority |-> "high"],
    [source |-> "banksy", priority |-> "medium"],
    [source |-> "commerce", priority |-> "low"],
    [source |-> "pricing-engine", priority |-> ""]>>

\* this.endpoints.find(e => e.source === source): the endpoint, or undefined
FindEndpoint(source) ==
  LET found == SelectSeq(receives_from, LAMBDA e : e.source = source)
  IN IF Len(found) > 0 THEN Some(found[1]) ELSE Null

\* An error message built from a template is the sequence of its parts
validateRequest_ownerOptional(request) ==
  IF request.source = ""
  THEN [valid |-> FALSE, error |-> <<"Missing source">>]
  ELSE IF FindEndpoint(request.source) = Null
  THEN [valid |-> FALSE, error |-> <<"Unknown source: ", request.source>>]
  ELSE IF request.trigger = "" /\ request.type = ""
  THEN [valid |-> FALSE, error |-> <<"Missing trigger or type">>]
  ELSE [valid |-> TRUE]

validateRequest(request) ==
  IF request.source = ""
  THEN [valid |-> FALSE, error |-> <<"Missing source">>]
  ELSE IF FindEndpoint(request.source) = Null
  THEN [valid |-> FALSE, error |-> <<"Unknown source: ", request.source>>]
  ELSE IF request.trigger = "" /\ request.type = ""
  THEN [valid |-> FALSE, error |-> <<"Missing trigger or type">>]
  ELSE IF request.owner = ""
  THEN [valid |-> FALSE, error |-> <<"Missing owner">>]
  ELSE [valid |-> TRUE]

\* endpoint?.priority || 'medium'
getPriority(source) ==
  LET endpoint == FindEndpoint(source)
  IN IF endpoint # Null /\ endpoint[1].priority # ""
     THEN endpoint[1].priority ELSE "medium"

\* `REQ_${Date.now()}_${Math.random().toString(36).substring(2, 9)}`
generateRequestId(time, suffix) == <<"REQ", time, suffix>>

ReceiverInit ==
  /\ requestQueue = <<>>
  /\ receivedCount = 0
  /\ recvRet = [op |-> "constructor"]

\* receiveRequest(request); suffix is what Math.random() contributes to the id
ReceiveRequest(request, suffix) ==
  LET validated == validateRequest(request)
  IN IF ~validated.valid
     THEN /\ recvRet' = [op |-> "receiveRequest", success |-> FALSE,
                         error |-> validated.error]
          /\ UNCHANGED <<requestQueue, receivedCount>>
     ELSE LET enrichedRequest ==
                [received_at |-> IsoString(now),
                 request_id |-> generateRequestId(now, suffix),
                 source_validated |-> TRUE,
                 priority |-> getPriority(request.source)] @@ request
          IN /\ requestQueue' = Append(requestQueue, enrichedRequest)
             /\ receivedCount' = receivedCount + 1
             /\ recvRet' = [op |-> "receiveRequest", success |-> TRUE,
                            request_id |-> enrichedRequest.request_id,
                            queue_position |-> Len(requestQueue')]

\* this.requestQueue.sort(...) by priority, high before medium before low; the
\* sort is stable and sorts the queue in place
SortedByPriority(q) ==
  SelectSeq(q, LAMBDA r : r.priority = "high")
    \o SelectSeq(q, LAMBDA r : r.priority = "medium")
    \o SelectSeq(q, LAMBDA r : r.priority = "low")

GetNextRequest ==
  IF Len(requestQueue) = 0
  THEN /\ recvRet' = [op |-> "getNextRequest", request |-> Null]
       /\ UNCHANGED <<requestQueue, receivedCount>>
  ELSE LET sorted == SortedByPriority(requestQueue)
       IN /\ requestQueue' = Tail(sorted)
          /\ recvRet' = [op |-> "getNextRequest", request |-> Some(Head(sorted))]
          /\ UNCHANGED receivedCount

ReceiverClearQueue ==
  /\ requestQueue' = <<>>
  /\ recvRet' = [op |-> "clearQueue", cleared |-> Len(requestQueue)]
  /\ UNCHANGED receivedCount

----------------------------------------------------------------------------
(* The pipeline's initial states *)

\* The state after the callers have enqueued the first n requests of workload
\* w, one addToQueue call after the other
QueueAfter(w, n) ==
  [k \in 1..n |-> QueueEntry([request_id |-> k] @@ WorkloadRequest(w, k), 0)]

\* The batch queue and its collaborators as constructed (n = 0), or after
\* these n addToQueue calls
QueueInitAfter(w, n) ==
  /\ queue = QueueAfter(w, n)
  /\ processing = FALSE
  /\ batchHistory = <<>>
  /\ jobs = <<>>
  /\ bpRet = IF n = 0 THEN [op |-> "constructor"] ELSE AddToQueueReturn(n)
  /\ MinterInit
  /\ workload = w
  /\ submitted = n
  /\ processed = <<>>
  /\ batchCount = 0

\* The pipeline with a ledger as constructed
PipelineInitAfter(w, n) ==
  /\ QueueInitAfter(w, n)
  /\ LedgerInit
  /\ idCounter = 0

\* The tokens that callers hand to the ledger: two that a collaborator
\* created (immutable) and one that is not marked immutable
LedgerToken(kind, id, time) ==
  CASE kind = "art" -> [id |-> id, type |-> "ART", owner |-> "alice", value |-> 5,
                        timestamp |-> time, immutable |-> TRUE]
    [] kind = "alc" -> [id |-> id, type |-> "ALC", owner |-> "bob", value |-> 10,
                        timestamp |-> time, immutable |-> TRUE]
    [] kind = "draft" -> [id |-> id, type |-> "ART", owner |-> "alice", value |-> 5,
                          timestamp |-> time, immutable |-> FALSE]

\* The ledger state after the addToken calls, at time 0, of tokens a..b in
\* this order, alternately an ART and an ALC token, from the state L
RECURSIVE LedgerFrom(_, _, _)
LedgerFrom(L, a, b) ==
  IF a > b THEN L
  ELSE IF a = b
       THEN AppendedState(L, LedgerToken(IF a % 2 = 1 THEN "art" ELSE "alc", a, 0), 0)
       ELSE LET m == (a + b) \div 2
            IN CHOOSE S \in {LedgerFrom(firstHalf, m + 1, b) :
                               firstHalf \in {LedgerFrom(L, a, m)}} : TRUE

LedgerAfter(n) == LedgerFrom([ledger |-> <<>>, merkleRoots |-> <<>>], 1, n)

\* The ledger as constructed (n = 0), or after these n addToken calls, all of
\* them made by batch processing
LedgerInitAfter(n) ==
  LET L == LedgerAfter(n)
  IN /\ ledger = L.ledger
     /\ merkleRoots = L.merkleRoots
     /\ ledRet = (IF n = 0 THEN [op |-> "constructor"]
                  ELSE [op |-> "addToken", threw |-> FALSE, entry |-> EntryRef(n - 1)])
     /\ appendsBy = [c \in {"batch", "other"} |-> IF c = "batch" THEN n ELSE 0]
     /\ idCounter = n

----------------------------------------------------------------------------
(* The admission controller on its own *)

Init ==
  /\ CapInit
  /\ PipelineInitAfter(1, 0)
  /\ arrivals = <<>>
  /\ BackupInit
  /\ ReceiverInit
  /\ now = 0
  /\ steps = 0

\* One step of a run: the budget of steps bounds the run's length
Step(A) ==
  /\ steps < MaxSteps
  /\ steps' = steps + 1
  /\ A
  /\ UNCHANGED arrivals

CapCall(A) == Step(A /\ UNCHANGED <<now, pipelineVars>>)

TimePasses == Step((\E d \in TickSteps : Tick(d)) /\ UNCHANGED <<capVars, pipelineVars>>)

Next ==
  \/ CapCall(\E t \in ActivityTypes, i \in Intensities : RegisterActivity(t, i))
  \/ CapCall(AttemptMint)
  \/ CapCall(\E r \in DecayRates : ApplyDecay(r))
  \/ CapCall(\E a \in BoostAmounts : Boost(a))
  \/ CapCall(Reset)
  \/ TimePasses

Spec == Init /\ [][Next]_vars

\* Runs that consist of registerActivity calls only (and the passing of time)
ActivityNext ==
  \/ CapCall(\E t \in ActivityTypes, i \in Intensities : RegisterActivity(t, i))
  \/ TimePasses

SpecActivity == Init /\ [][ActivityNext]_vars

----------------------------------------------------------------------------
(* The activity history: runs of registerActivity and detectAbuse calls on *)
(* a capacitor that has already registered some events                     *)

\* The k-th event registered before the run: a click of intensity 0 at time 0
EarlierEvent(k) == [type |-> "click", intensity |-> 0, timestamp |-> 0]

\* The activity log after the registerActivity calls for the events a..b, in
\* this order, from the log it was
RECURSIVE HistoryFrom(_, _, _)
HistoryFrom(log, a, b) ==
  IF a > b THEN log
  ELSE IF a = b
       THEN LogAfterPush(log, [type |-> EarlierEvent(a).type,
                               intensity |-> EarlierEvent(a).intensity,
                               charge_added |-> EarlierEvent(a).intensity * chargeRate,
                               timestamp |-> EarlierEvent(a).timestamp,
                               total_charge |-> ChargeAfterActivity(0, 0)])
       ELSE LET m == (a + b) \div 2
            IN CHOOSE r \in {HistoryFrom(left, m + 1, b) :
                               left \in {HistoryFrom(log, a, m)}} : TRUE

\* The capacitor as constructed (n = 0), or after n registerActivity calls
CapInitAfter(n) ==
  /\ charge = 0
  /\ threshold = 100
  /\ activityLog = HistoryFrom(<<>>, 1, n)
  /\ lastMintTime = Null
  /\ capRet = (IF n = 0 THEN [op |-> "constructor"]
               ELSE [op |-> "registerActivity", charge |-> 0, can_mint |-> FALSE])
  /\ arrivals = [k \in 1..n |-> EarlierEvent(k)]

CallRegisterActivity ==
  \E t \in ActivityTypes, i \in Intensities :
    /\ RegisterActivity(t, i)
    /\ arrivals' = Append(arrivals, [type |-> t, intensity |-> i, timestamp |-> now])
    /\ UNCHANGED now

CallDetectAbuse == DetectAbuse /\ UNCHANGED <<arrivals, now>>

HistoryTimePasses == (\E d \in TickSteps : Tick(d)) /\ UNCHANGED <<capVars, arrivals>>

HistoryInit ==
  /\ \E n \in HistoryPrefills : CapInitAfter(n)
  /\ PipelineInitAfter(1, 0)
  /\ BackupInit
  /\ ReceiverInit
  /\ now = 0
  /\ steps = 0

HistoryCall(A) ==
  /\ steps < MaxHistorySteps
  /\ steps' = steps + 1
  /\ A
  /\ UNCHANGED pipelineVars

HistoryNext ==
  \/ HistoryCall(CallRegisterActivity)
  \/ HistoryCall(CallDetectAbuse)
  \/ HistoryCall(HistoryTimePasses)

SpecHistory == HistoryInit /\ [][HistoryNext]_vars

----------------------------------------------------------------------------
(* The batch queue with its collaborators. The callers submit the requests *)
(* of one workload, in order; every call may fall between two awaits of a  *)
(* suspended processBatch call.                                            *)

Submit ==
  /\ submitted' = submitted + 1
  /\ AddToQueue([request_id |-> submitted + 1]
                  @@ WorkloadRequest(workload, submitted + 1))
  /\ UNCHANGED <<batchCount, loopVars>>

CallProcessBatch ==
  /\ \E b \in BatchSizes : ProcessBatch("processBatch", b)
  /\ UNCHANGED submitted

CallAutoProcess == AutoProcess /\ UNCHANGED submitted

CallMushroomBoost == MushroomBoost /\ UNCHANGED submitted

CallClearQueue == ClearQueue /\ UNCHANGED <<submitted, batchCount, loopVars>>

CallChargeCapacitor ==
  /\ \E a \in CapacitorActivities : ChargeCapacitor(a)
  /\ UNCHANGED <<bpVars, idVars, submitted, processed>>

Resumes ==
  /\ \E k \in 1..Len(jobs) : Resume(k)
  /\ UNCHANGED submitted

otherVars == <<capVars, ledgerVars, backupVars, receiverVars, workload, arrivals,
               now>>

BatchInit ==
  /\ CapInitWith(0)
  /\ arrivals = <<>>
  /\ \E w \in Workloads : PipelineInitAfter(w, 0)
  /\ BackupInit
  /\ ReceiverInit
  /\ now = 0
  /\ steps = 0

BatchCall(A) ==
  /\ steps < MaxBatchSteps
  /\ steps' = steps + 1
  /\ A
  /\ UNCHANGED otherVars

BatchNext ==
  \/ BatchCall(Submit)
  \/ BatchCall(CallProcessBatch)
  \/ BatchCall(CallAutoProcess)
  \/ BatchCall(CallMushroomBoost)
  \/ BatchCall(CallClearQueue)
  \/ BatchCall(CallChargeCapacitor)
  \/ BatchCall(Resumes)

SpecBatch == BatchInit /\ [][BatchNext]_vars

\* The same, from the state in which the callers have already enqueued the
\* first Backlog requests of their workload
BacklogInit ==
  /\ CapInitWith(0)
  /\ arrivals = <<>>
  /\ \E w \in LongWorkloads : PipelineInitAfter(w, Backlog)
  /\ BackupInit
  /\ ReceiverInit
  /\ now = 0
  /\ steps = 0

BacklogCall(A) ==
  /\ steps < MaxBacklogSteps
  /\ steps' = steps + 1
  /\ A
  /\ UNCHANGED otherVars

BacklogNext ==
  \/ BacklogCall(Submit)
  \/ BacklogCall(CallProcessBatch)
  \/ BacklogCall(CallAutoProcess)
  \/ BacklogCall(CallMushroomBoost)
  \/ BacklogCall(CallClearQueue)
  \/ BacklogCall(CallChargeCapacitor)
  \/ BacklogCall(Resumes)

SpecBacklog == BacklogInit /\ [][BacklogNext]_vars

\* The same, from the state in which more requests than maxBatchSize are
\* pending, each of them an ALC request (a batch suspends at every item)
BoostInit ==
  /\ CapInitWith(0)
  /\ arrivals = <<>>
  /\ PipelineInitAfter(4, BigBacklog)
  /\ BackupInit
  /\ ReceiverInit
  /\ now = 0
  /\ steps = 0

BoostCall(A) ==
  /\ steps < MaxBoostSteps
  /\ steps' = steps + 1
  /\ A
  /\ UNCHANGED otherVars

BoostNext ==
  \/ BoostCall(Submit)
  \/ BoostCall(CallProcessBatch)
  \/ BoostCall(CallAutoProcess)
  \/ BoostCall(CallMushroomBoost)
  \/ BoostCall(CallClearQueue)
  \/ BoostCall(CallChargeCapacitor)
  \/ BoostCall(Resumes)

SpecBoost == BoostInit /\ [][BoostNext]_vars

\* Runs on a queue of three requests that all or partly go to the ALC minter,
\* in which every chargeCapacitor call is logged with the batch that was in
\* flight when it was made (0 when none was)
GateCharge ==
  /\ CallChargeCapacitor
  /\ arrivals' = Append(arrivals,
                    [type |-> "chargeCapacitor", timestamp |-> now,
                     during |-> IF processing THEN batchCount ELSE 0])

gateVars == <<capVars, ledgerVars, backupVars, receiverVars, workload, now>>

GateInit ==
  /\ CapInitWith(0)
  /\ arrivals = <<>>
  /\ \E w \in {3, 4} : PipelineInitAfter(w, 3)
  /\ BackupInit
  /\ ReceiverInit
  /\ now = 0
  /\ steps = 0

GateCall(A) ==
  /\ steps < MaxGateSteps
  /\ steps' = steps + 1
  /\ A
  /\ UNCHANGED gateVars

GateNext ==
  \/ GateCall(Submit /\ UNCHANGED arrivals)
  \/ GateCall(CallProcessBatch /\ UNCHANGED arrivals)
  \/ GateCall(CallMushroomBoost /\ UNCHANGED arrivals)
  \/ GateCall(GateCharge)
  \/ GateCall(Resumes /\ UNCHANGED arrivals)

SpecGate == GateInit /\ [][GateNext]_vars

\* Runs in which the budget bounds the calls that callers make, not the
\* continuations of a suspended processBatch call: the promise that the call
\* awaits is settled (alcMinter.mint has returned), so the event loop runs the
\* continuation after finitely many other calls
LiveCall(A) ==
  /\ steps < MaxLiveSteps
  /\ steps' = steps + 1
  /\ A
  /\ UNCHANGED otherVars

Continue == Resumes /\ UNCHANGED <<otherVars, steps>>

LiveNext ==
  \/ LiveCall(Submit)
  \/ LiveCall(CallProcessBatch)
  \/ LiveCall(CallAutoProcess)
  \/ LiveCall(CallMushroomBoost)
  \/ LiveCall(CallClearQueue)
  \/ LiveCall(CallChargeCapacitor)
  \/ Continue

\* Weak fairness of Continue, WF_vars(Continue), with ENABLED <<Continue>>_vars
\* written out: a continuation can run exactly when a call is suspended
ContinueIsFair == []<>(jobs = <<>>) \/ []<><<Continue>>_vars

SpecLive == BatchInit /\ [][LiveNext]_vars /\ ContinueIsFair

----------------------------------------------------------------------------
(* The ledger on its own. Its callers (batch processing and any other      *)
(* appender) hand it the tokens, one addToken call after the other; every  *)
(* call runs to completion before the next one starts.                     *)

nonLedgerVars == <<capVars, bpVars, minterVars, callerVars, batchCount, arrivals,
                   backupVars, receiverVars>>

CallAddToken ==
  /\ \E c \in Callers, kind \in TokenKinds :
       AddToken(c, LedgerToken(kind, idCounter + 1, now))
  /\ idCounter' = idCounter + 1
  /\ UNCHANGED now

CallVerifyIntegrity == VerifyIntegrity /\ UNCHANGED <<idCounter, now>>

CallQuery == (\E f \in QueryFilters : Query(f)) /\ UNCHANGED <<idCounter, now>>

CallGetStats == GetStats /\ UNCHANGED <<idCounter, now>>

CallExportLedger == ExportLedger /\ UNCHANGED <<idCounter, now>>

CallCreateMerkleRoot == CreateMerkleRoot /\ UNCHANGED <<idCounter, now>>

CallTamper ==
  /\ \E i \in 0..(Len(ledger) - 1), field \in {"hash", "previous_hash"} :
       Tamper(i, field, GenesisHash)
  /\ UNCHANGED <<idCounter, now>>

LedgerTimePasses ==
  /\ \E d \in TickSteps : Tick(d)
  /\ UNCHANGED <<ledgerVars, idCounter>>

LedgerSpecInit ==
  /\ CapInitWith(0)
  /\ arrivals = <<>>
  /\ QueueInitAfter(1, 0)
  /\ \E n \in Prefills : LedgerInitAfter(n)
  /\ BackupInit
  /\ ReceiverInit
  /\ now = 0
  /\ steps = 0

LedgerCall(A) ==
  /\ steps < MaxLedgerSteps
  /\ steps' = steps + 1
  /\ A
  /\ UNCHANGED nonLedgerVars

\* Runs in which entries reach the ledger through addToken only
LedgerNext ==
  \/ LedgerCall(CallAddToken)
  \/ LedgerCall(CallVerifyIntegrity)
  \/ LedgerCall(LedgerTimePasses)

SpecLedger == LedgerSpecInit /\ [][LedgerNext]_vars

\* Runs of every operation of the ledger, createMerkleRoot included
LedgerOpsInit ==
  /\ CapInitWith(0)
  /\ arrivals = <<>>
  /\ QueueInitAfter(1, 0)
  /\ \E n \in OpsPrefills : LedgerInitAfter(n)
  /\ BackupInit
  /\ ReceiverInit
  /\ now = 0
  /\ steps = 0

LedgerOpsNext ==
  \/ LedgerCall(CallAddToken)
  \/ LedgerCall(CallCreateMerkleRoot)
  \/ LedgerCall(CallVerifyIntegrity)
  \/ LedgerCall(CallQuery)
  \/ LedgerCall(CallGetStats)
  \/ LedgerCall(CallExportLedger)
  \/ LedgerCall(LedgerTimePasses)

SpecLedgerOps == LedgerOpsInit /\ [][LedgerOpsNext]_vars

\* Runs on a short ledger whose entry objects callers also assign to
TamperInit ==
  /\ CapInitWith(0)
  /\ arrivals = <<>>
  /\ QueueInitAfter(1, 0)
  /\ \E n \in {0, 3} : LedgerInitAfter(n)
  /\ BackupInit
  /\ ReceiverInit
  /\ now = 0
  /\ steps = 0

TamperCall(A) ==
  /\ steps < MaxTamperSteps
  /\ steps' = steps + 1
  /\ A
  /\ UNCHANGED nonLedgerVars

TamperNext ==
  \/ TamperCall(CallAddToken)
  \/ TamperCall(CallTamper)
  \/ TamperCall(CallVerifyIntegrity)

SpecTamper == TamperInit /\ [][TamperNext]_vars

\* Runs in which callers hand the ledger tokens of their own making: ids may
\* repeat, and a token was created at time 0 or at the time of the call
CallAddAnyToken ==
  /\ \E c \in Callers, kind \in {"art", "alc"}, id \in TokenIds, time \in {0, now} :
       AddToken(c, LedgerToken(kind, id, time))
  /\ UNCHANGED <<idCounter, now>>

ResubmitInit ==
  /\ CapInitWith(0)
  /\ arrivals = <<>>
  /\ QueueInitAfter(1, 0)
  /\ LedgerInitAfter(0)
  /\ BackupInit
  /\ ReceiverInit
  /\ now = 0
  /\ steps = 0

ResubmitCall(A) ==
  /\ steps < MaxResubmitSteps
  /\ steps' = steps + 1
  /\ A
  /\ UNCHANGED nonLedgerVars

ResubmitNext ==
  \/ ResubmitCall(CallAddAnyToken)
  \/ ResubmitCall(CallVerifyIntegrity)
  \/ ResubmitCall(LedgerTimePasses)

SpecResubmit == ResubmitInit /\ [][ResubmitNext]_vars

----------------------------------------------------------------------------
(* The ledger with its backup store: a short ledger whose entry objects     *)
(* callers also assign to, exported and backed up between the other calls   *)

nonBackupVars == <<capVars, bpVars, minterVars, callerVars, batchCount, arrivals,
                   receiverVars>>

BackupAddToken == CallAddToken /\ UNCHANGED backupVars

BackupTamper == CallTamper /\ UNCHANGED backupVars

BackupExportLedger == CallExportLedger /\ UNCHANGED backupVars

CallCreateFullBackup ==
  /\ \E x \in RandomSuffixes : CreateFullBackup(x)
  /\ UNCHANGED <<idCounter, now>>

CallCreateIncrementalBackup ==
  /\ \E i \in SinceIndexes, x \in RandomSuffixes : CreateIncrementalBackup(i, x)
  /\ UNCHANGED <<idCounter, now>>

CallListBackups == ListBackups /\ UNCHANGED <<idCounter, now>>

BackupInitAfter ==
  /\ CapInitWith(0)
  /\ arrivals = <<>>
  /\ QueueInitAfter(1, 0)
  /\ \E n \in {0, 3} : LedgerInitAfter(n)
  /\ BackupInit
  /\ ReceiverInit
  /\ now = 0
  /\ steps = 0

BackupCall(A) ==
  /\ steps < MaxBackupSteps
  /\ steps' = steps + 1
  /\ A
  /\ UNCHANGED nonBackupVars

BackupNext ==
  \/ BackupCall(BackupAddToken)
  \/ BackupCall(BackupTamper)
  \/ BackupCall(BackupExportLedger)
  \/ BackupCall(CallCreateFullBackup)
  \/ BackupCall(CallCreateIncrementalBackup)
  \/ BackupCall(CallListBackups)

SpecBackup == BackupInitAfter /\ [][BackupNext]_vars

\* The backup store of a ledger that stays empty: backups are made, listed
\* and cleaned
CallCleanOldBackups ==
  /\ \E n \in KeepLasts : CleanOldBackups(n)
  /\ UNCHANGED <<idCounter, now>>

CleanInit ==
  /\ CapInitWith(0)
  /\ arrivals = <<>>
  /\ QueueInitAfter(1, 0)
  /\ LedgerInitAfter(0)
  /\ BackupInit
  /\ ReceiverInit
  /\ now = 0
  /\ steps = 0

CleanCall(A) ==
  /\ steps < MaxCleanSteps
  /\ steps' = steps + 1
  /\ A
  /\ UNCHANGED nonBackupVars

CleanNext ==
  \/ CleanCall(CallCreateFullBackup)
  \/ CleanCall(CallCreateIncrementalBackup)
  \/ CleanCall(CallListBackups)
  \/ CleanCall(CallCleanOldBackups)

SpecClean == CleanInit /\ [][CleanNext]_vars

----------------------------------------------------------------------------
(* The request intake on its own: the sources send requests, well formed or *)
(* not, and a consumer takes them from the queue                            *)

SrcDashHub == [source |-> "dash-hub", trigger |-> "user_contribution", type |-> "",
               owner |-> "alice", amount |-> 3]
SrcBanksy == [source |-> "banksy", trigger |-> "purchase", type |-> "ART",
              owner |-> "bob", amount |-> 1]
SrcPricing == [source |-> "pricing-engine", trigger |-> "", type |-> "RECEIPT",
               owner |-> "alice", amount |-> 1]
SrcMissing == [source |-> "", trigger |-> "purchase", type |-> "ART",
               owner |-> "bob", amount |-> 1]
SrcUnknown == [source |-> "mailer", trigger |-> "purchase", type |-> "ART",
               owner |-> "bob", amount |-> 1]
SrcNoKind == [source |-> "commerce", trigger |-> "", type |-> "",
              owner |-> "alice", amount |-> 1]
SrcNoOwner == [source |-> "commerce", trigger |-> "purchase", type |-> "RECEIPT",
               owner |-> "", amount |-> 1]
SrcNothing == [source |-> "", trigger |-> "", type |-> "", owner |-> "", amount |-> 0]

ReceivedRequests ==
  {SrcDashHub, SrcBanksy, SrcPricing, SrcMissing, SrcUnknown, SrcNoKind,
   SrcNoOwner, SrcNothing}

nonReceiverVars == <<capVars, bpVars, minterVars, ledgerVars, callerVars, idVars,
                     backupVars, arrivals>>

CallReceiveRequest ==
  /\ \E r \in ReceivedRequests, x \in RandomSuffixes : ReceiveRequest(r, x)
  /\ UNCHANGED now

CallGetNextRequest == GetNextRequest /\ UNCHANGED now

CallReceiverClearQueue == ReceiverClearQueue /\ UNCHANGED now

ReceiverTimePasses ==
  /\ \E d \in TickSteps : Tick(d)
  /\ UNCHANGED receiverVars

ReceiverSpecInit ==
  /\ CapInitWith(0)
  /\ arrivals = <<>>
  /\ PipelineInitAfter(1, 0)
  /\ BackupInit
  /\ ReceiverInit
  /\ now = 0
  /\ steps = 0

ReceiverCall(A) ==
  /\ steps < MaxReceiverSteps
  /\ steps' = steps + 1
  /\ A
  /\ UNCHANGED nonReceiverVars

ReceiverNext ==
  \/ ReceiverCall(CallReceiveRequest)
  \/ ReceiverCall(CallGetNextRequest)
  \/ ReceiverCall(CallReceiverClearQueue)
  \/ ReceiverCall(ReceiverTimePasses)

SpecReceiver == ReceiverSpecInit /\ [][ReceiverNext]_vars

----------------------------------------------------------------------------
(* Claims about the admission controller *)

\* C1: in every reachable state, after any sequence of registerActivity,
\* attemptMint, applyDecay(rate) and boost(amount) calls, whatever rate and
\* amount are passed, 0 <= charge <= maxCharge.
C1_ChargeInRange == 0 <= charge /\ charge <= 100

\* C2: attemptMint succeeds if and only if charge >= threshold at the time of
\* the call; on success the new charge is max(0, charge - 20) and lastMintTime
\* is the time of the call.
C2_AttemptMintIffCharged ==
  [][AttemptMint =>
       /\ capRet'.op = "attemptMint"
       /\ capRet'.success <=> (charge >= threshold)
       /\ (charge >= threshold) =>
            /\ charge' = (IF charge - 20 > 0 THEN charge - 20 ELSE 0)
            /\ capRet'.charge = charge'
            /\ lastMintTime' = <<now>>
            /\ capRet'.timestamp = now]_vars

\* C2 witness: threshold 100, registerActivity('click', 100), then a
\* successful attemptMint that leaves charge 80
C2_Witness ==
  /\ threshold = 100
  /\ capRet.op = "attemptMint"
  /\ capRet.success
  /\ capRet.charge = 80
  /\ charge = 80
  /\ lastMintTime = <<now>>
  /\ Len(activityLog) = 1
  /\ activityLog[1].type = "click"
  /\ activityLog[1].intensity = 100

\* C3: a rejected attemptMint (charge < threshold) returns the current charge,
\* the threshold and needed = threshold - charge, and leaves charge,
\* lastMintTime and the activity history unchanged.
C3_RejectedMintReportsDeficit ==
  [][(AttemptMint /\ charge < threshold) =>
       /\ capRet'.op = "attemptMint"
       /\ capRet'.success = FALSE
       /\ capRet'.charge = charge
       /\ capRet'.threshold = threshold
       /\ capRet'.needed = threshold - charge
       /\ capRet'.needed > 0
       /\ charge' = charge
       /\ lastMintTime' = lastMintTime
       /\ activityLog' = activityLog]_vars

\* C3 witness: a rejection after some activity and an earlier mint
C3_Witness ==
  /\ capRet.op = "attemptMint"
  /\ capRet.success = FALSE
  /\ capRet.needed = threshold - charge
  /\ capRet.needed > 0
  /\ Len(activityLog) > 0
  /\ lastMintTime # Null

\* C4: registerActivity(kind, intensity) with intensity >= 0 sets charge to
\* min(maxCharge, charge + intensity x chargeRate): it never lowers charge,
\* intensity 0 leaves charge unchanged, and after every call of any sequence
\* of registerActivity calls 0 <= charge <= maxCharge.
C4_RegisterActivityClamps ==
  [][\A t \in ActivityTypes, i \in Intensities :
       RegisterActivity(t, i) =>
         /\ i >= 0
         /\ charge' = (IF charge + i * 1 < 100 THEN charge + i * 1 ELSE 100)
         /\ charge' >= charge
         /\ (i = 0 => charge' = charge)
         /\ 0 <= charge' /\ charge' <= 100
         /\ capRet'.charge = charge']_vars

\* C4 witness: a registerActivity call whose sum was clamped to maxCharge
C4_Witness ==
  /\ capRet.op = "registerActivity"
  /\ charge = 100
  /\ Len(activityLog) >= 2
  /\ activityLog[Len(activityLog)].charge_added = 15
  /\ activityLog[Len(activityLog) - 1].total_charge = 100

\* C5: applyDecay(rate) never raises charge: for every call, whatever rate is
\* passed, the charge after the call is <= the charge before it and >= 0.
C5_DecayNeverRaises ==
  [][\A r \in DecayRates :
       ApplyDecay(r) => (charge' <= charge /\ charge' >= 0)]_vars

----------------------------------------------------------------------------
(* Claims about the batch queue *)

AlreadyProcessing(ret) ==
  /\ "error" \in DOMAIN ret
  /\ ret.error = "Batch already processing"

NothingStarted ==
  /\ queue' = queue
  /\ jobs' = jobs
  /\ processing' = processing
  /\ batchHistory' = batchHistory
  /\ batchCount' = batchCount
  /\ processed' = processed

\* C6 as stated: while a batch is in flight (processing = true), every other
\* processBatch, autoProcess or mushroomBoost call returns the 'Batch already
\* processing' error and removes nothing from the pending queue.
C6_EveryCallRejected ==
  [][(processing /\ (CallProcessBatch \/ CallAutoProcess \/ CallMushroomBoost)) =>
       (AlreadyProcessing(bpRet') /\ queue' = queue)]_vars

\* C6 as amended: at most one batch is in flight at any time. While one is in
\* flight, every processBatch call returns the 'Batch already processing'
\* error; so does autoProcess when at least 10 requests are pending, and so
\* does mushroomBoost (inside its boost result) when the pending queue is not
\* empty. With fewer than 10 pending autoProcess returns 'Queue too small for
\* auto-processing', and with an empty queue mushroomBoost returns 'Queue is
\* empty'. None of these calls removes a pending request or starts a batch.
C6_OneBatchInFlight ==
  /\ [](Len(jobs) <= 1 /\ (processing <=> Len(jobs) = 1))
  /\ [][processing =>
          /\ CallProcessBatch =>
               (AlreadyProcessing(bpRet') /\ bpRet'.op = "processBatch" /\ NothingStarted)
          /\ CallAutoProcess =>
               /\ NothingStarted
               /\ bpRet'.op = "autoProcess"
               /\ IF Len(queue) >= 10
                  THEN AlreadyProcessing(bpRet')
                  ELSE bpRet'.message = "Queue too small for auto-processing"
          /\ CallMushroomBoost =>
               /\ NothingStarted
               /\ bpRet'.op = "mushroomBoost"
               /\ IF Len(queue) > 0
                  THEN AlreadyProcessing(bpRet') /\ bpRet'.boost = "mushroom"
                  ELSE bpRet'.message = "Queue is empty"]_vars

\* C6 witness: a batch is suspended at an await, 10 requests are pending, and
\* autoProcess has just been refused
C6_Witness ==
  /\ processing
  /\ Len(jobs) = 1
  /\ jobs[1].phase = "await"
  /\ Len(queue) >= 10
  /\ bpRet.op = "autoProcess"
  /\ AlreadyProcessing(bpRet)

\* The indexes of a result's errors are increasing positions of its batch
ErrorsWellFormed(errors, size) ==
  /\ \A k \in 1..Len(errors) :
       /\ errors[k].index \in 0..(size - 1)
       /\ errors[k].error # ""
       /\ errors[k].request.request_id \in 1..submitted
  /\ \A k \in 1..(Len(errors) - 1) : errors[k].index < errors[k + 1].index

\* C7: partial failure in a batch is isolated per item: for a batch of n
\* drained items, every item ends in exactly one of the result's token list or
\* error list (tokens.length + errors.length = n), a failing item never
\* prevents the items after it from being processed, and each error records
\* the item's index in the batch and the failure reason.
C7_PartialFailureIsolated ==
  /\ \A b \in 1..Len(batchHistory) :
       LET r == batchHistory[b]
       IN /\ Len(r.tokens) + Len(r.errors) = r.size
          /\ r.size >= 1
          /\ ErrorsWellFormed(r.errors, r.size)
  /\ \A j \in 1..Len(jobs) :
       /\ Len(jobs[j].tokens) + Len(jobs[j].errors) = jobs[j].i
       /\ jobs[j].i < jobs[j].size
       /\ Len(jobs[j].batch) = jobs[j].size
       /\ ErrorsWellFormed(jobs[j].errors, jobs[j].size)
  \* every item of every started batch up to the one in hand has been handed
  \* to token creation
  /\ Len(processed) =
       LET Sizes[b \in 0..Len(batchHistory)] ==
             IF b = 0 THEN 0 ELSE Sizes[b - 1] + batchHistory[b].size
           InHand[j \in 0..Len(jobs)] ==
             IF j = 0 THEN 0 ELSE InHand[j - 1] + jobs[j].i + 1
       IN Sizes[Len(batchHistory)] + InHand[Len(jobs)]

\* C7 witness: a batch of 10 whose item at index 4 failed: 9 tokens, 1 error
C7_Witness ==
  /\ Len(batchHistory) >= 1
  /\ batchHistory[1].size = 10
  /\ Len(batchHistory[1].tokens) = 9
  /\ Len(batchHistory[1].errors) = 1
  /\ batchHistory[1].errors[1].index = 4
  /\ batchHistory[1].errors[1].error = "Unknown token type"

\* The ids of the tokens the finished batches committed, in batch order
RECURSIVE CommittedIds(_)
CommittedIds(history) ==
  IF history = <<>> THEN <<>>
  ELSE CommittedIds(SubSeq(history, 1, Len(history) - 1))
         \o [k \in 1..Len(history[Len(history)].tokens) |->
               history[Len(history)].tokens[k].id]

\* C8: every item that processBatch commits is forwarded to the hash-chained
\* Ledger's append: when the batch finishes, the Ledger holds one chained
\* entry for each committed token, in batch order.
C8_CommittedTokensInLedger ==
  LET ids == CommittedIds(batchHistory)
  IN /\ Len(ledger) = Len(ids)
     /\ \A k \in 1..Len(ids) : ledger[k].token_id = ids[k]

\* C9: a batch takes the first min(maxSize, pending length) requests of the
\* pending queue in enqueue order (maxSize is the batchSize argument, or
\* maxBatchSize = 100 when it is null or 0) and processes them one after
\* another in that order; the requests left in the pending queue keep their
\* relative order, so across successive batches requests are processed in the
\* order they were enqueued.
C9_TakesFirst(n) ==
  LET taken == [k \in 1..n |-> queue[k]]
  IN /\ queue' = [k \in 1..(Len(queue) - n) |-> queue[n + k]]
     /\ IF Len(jobs') > 0
        THEN /\ jobs'[1].batch = taken
             /\ processed' = processed \o [k \in 1..(jobs'[1].i + 1) |-> taken[k]]
        ELSE /\ processed' = processed \o taken
             /\ batchHistory'[Len(batchHistory')].size = n

C9_Fifo ==
  /\ [](/\ \A k \in 1..(Len(processed) - 1) :
             processed[k].request_id < processed[k + 1].request_id
        /\ \A k \in 1..(Len(queue) - 1) :
             queue[k].request_id < queue[k + 1].request_id
        /\ \A k \in 1..Len(processed), q \in 1..Len(queue) :
             processed[k].request_id < queue[q].request_id)
  /\ [][~processing =>
          /\ \A b \in BatchSizes :
               (Len(queue) > 0 /\ ProcessBatch("processBatch", b)) =>
                 C9_TakesFirst(IF b = 0 \/ b > Len(queue)
                               THEN (IF Len(queue) < 100 THEN Len(queue) ELSE 100)
                               ELSE b)
          /\ (Len(queue) >= 10 /\ AutoProcess) => C9_TakesFirst(10)
          /\ (Len(queue) > 0 /\ MushroomBoost) => C9_TakesFirst(Len(queue))]_vars

\* C9 witness: two batches have finished, the second one took the two requests
\* at the front of what the first had left, and a request is still pending
C9_Witness ==
  /\ Len(batchHistory) = 2
  /\ batchHistory[1].size = 2
  /\ batchHistory[2].size = 2
  /\ Len(processed) = 4
  /\ processed[3].request_id = 3
  /\ Len(queue) >= 1
  /\ queue[1].request_id = 5

\* C10: each MintRequest's status is 'queued' when enqueued, moves exactly once
\* to a terminal status (committed if its token was created, failed otherwise)
\* when its batch is processed, and is never changed after that.
C10_StatusReachesTerminal ==
  /\ \A q \in 1..Len(queue) : queue[q].status = "queued"
  /\ \A b \in 1..Len(batchHistory) :
       \A k \in 1..Len(batchHistory[b].errors) :
         batchHistory[b].errors[k].request.status = "failed"
  /\ jobs = <<>> =>
       \A k \in 1..Len(processed) :
         processed[k].status \in {"committed", "failed"}

----------------------------------------------------------------------------
(* Claims about the hash-chained ledger *)

\* C11: in every ledger reached by addToken calls, entry i > 0 has
\* previous_hash equal to the hash of entry i-1, and entry 0 has previous_hash
\* equal to the genesis constant '0'.
C11_ChainLinked ==
  \A k \in 1..Len(ledger) :
    ledger[k].previous_hash = (IF k = 1 THEN <<48>> ELSE ledger[k - 1].hash)

\* C11 witness: a ledger grown from empty by three addToken calls, whose
\* entries have three different hashes
C11_Witness ==
  /\ Len(ledger) = 3
  /\ appendsBy["batch"] + appendsBy["other"] = 3
  /\ steps = 3
  /\ Cardinality({ledger[k].hash : k \in 1..3}) = 3

\* The links i (1 <= i < length) at which previous_hash of entry i is not the
\* hash of entry i-1
BrokenLinks ==
  {i \in 1..(Len(ledger) - 1) : ledger[i + 1].previous_hash # ledger[i].hash}

\* C12: verifyIntegrity returns valid = true iff every entry i >= 1 has
\* previous_hash equal to the hash of entry i-1; it goes on after a mismatch:
\* errors holds exactly one record (index, expected hash, actual hash) per
\* broken link, and verified_entries + errors.length = max(0, length - 1).
C12_VerifyCollectsAll ==
  ledRet.op = "verifyIntegrity" =>
    /\ ledRet.valid <=> BrokenLinks = {}
    /\ Len(ledRet.errors) = Cardinality(BrokenLinks)
    /\ \A k \in 1..Len(ledRet.errors) :
         LET e == ledRet.errors[k]
         IN /\ e.index \in BrokenLinks
            /\ e.expected = ledger[e.index].hash
            /\ e.actual = ledger[e.index + 1].previous_hash
            /\ \A j \in 1..(k - 1) : ledRet.errors[j].index < e.index
    /\ ledRet.verified_entries + Len(ledRet.errors)
         = (IF Len(ledger) = 0 THEN 0 ELSE Len(ledger) - 1)
    /\ ledRet.total_entries = Len(ledger)

\* C12 witness: a verification that found two broken links and one intact one
C12_Witness ==
  /\ ledRet.op = "verifyIntegrity"
  /\ ~ledRet.valid
  /\ Len(ledRet.errors) = 2
  /\ ledRet.verified_entries = 1

\* C13: after n successful addToken calls there are exactly floor(n/100)
\* digests, digest j covers exactly the indices 100j..100j+99, an entry is
\* sealed, with merkle_root set to the id of its digest, iff its index is
\* below 100*floor(n/100), and the other entries are unsealed.
C13_SealedPerHundred ==
  LET n == Len(ledger)
  IN /\ n = appendsBy["batch"] + appendsBy["other"]
     /\ Len(merkleRoots) = n \div 100
     /\ \A j \in 1..Len(merkleRoots) :
          /\ merkleRoots[j].batch_start = 100 * (j - 1)
          /\ merkleRoots[j].batch_end = 100 * (j - 1) + 99
          /\ merkleRoots[j].batch_size = 100
     /\ \A k \in 1..n :
          IF k - 1 < 100 * (n \div 100)
          THEN /\ ledger[k].sealed
               /\ ledger[k].merkle_root = <<merkleRoots[((k - 1) \div 100) + 1].root_id>>
          ELSE /\ ~ledger[k].sealed
               /\ ledger[k].merkle_root = <<>>

\* C13 witness: the ledger after its 250th append, the 249th and 250th made
\* in this run
C13_Witness ==
  /\ Len(ledger) = 250
  /\ steps = 2
  /\ Len(merkleRoots) = 2
  /\ ledger[200].sealed
  /\ ~ledger[201].sealed

\* C14: sealing is idempotent per range: no two digests cover the same range,
\* and no entry is covered by two digests.
C14_SealIdempotent ==
  \A i, j \in 1..Len(merkleRoots) :
    i < j =>
      /\ <<merkleRoots[i].batch_start, merkleRoots[i].batch_end>>
           # <<merkleRoots[j].batch_start, merkleRoots[j].batch_end>>
      /\ \/ merkleRoots[i].batch_end < merkleRoots[j].batch_start
         \/ merkleRoots[j].batch_end < merkleRoots[i].batch_start

\* C15: once an entry is appended, no ledger operation changes its index,
\* token_id, token_type, owner, value, hash or previous_hash; sealed and
\* merkle_root are set once, when the entry's range is sealed, and never
\* change after that.
C15_EntriesImmutable ==
  [][/\ Len(ledger') >= Len(ledger)
     /\ \A k \in 1..Len(ledger) :
          /\ ledger'[k].index = ledger[k].index
          /\ ledger'[k].token_id = ledger[k].token_id
          /\ ledger'[k].token_type = ledger[k].token_type
          /\ ledger'[k].owner = ledger[k].owner
          /\ ledger'[k].value = ledger[k].value
          /\ ledger'[k].hash = ledger[k].hash
          /\ ledger'[k].previous_hash = ledger[k].previous_hash
          /\ ledger[k].sealed =>
               /\ ledger'[k].sealed
               /\ ledger'[k].merkle_root = ledger[k].merkle_root
          /\ ledger'[k].sealed <=> ledger'[k].merkle_root # <<>>]_vars

\* C16: addToken of a token that is not marked immutable fails with an error
\* and leaves the ledger unchanged: no entry is appended, no index is
\* consumed, no digest is created.
C16_NotImmutableRejected ==
  [][\A c \in Callers :
       AddToken(c, LedgerToken("draft", idCounter + 1, now)) =>
         /\ ledRet'.op = "addToken"
         /\ ledRet'.threw
         /\ ledRet'.error = "Only immutable tokens can be added to ledger"
         /\ ledger' = ledger
         /\ merkleRoots' = merkleRoots]_vars

\* C16 witness: a rejected addToken on a ledger one entry short of a seal
C16_Witness ==
  /\ ledRet.op = "addToken"
  /\ ledRet.threw
  /\ Len(ledger) = 99
  /\ idCounter = 100
  /\ Len(merkleRoots) = 0

\* C17: the entry at position i (0-based) of the ledger has index = i, in
\* every reachable state, also after rejected appends.
C17_DenseIndices ==
  \A k \in 1..Len(ledger) : ledger[k].index = k - 1

\* C17 witness: a successful append that follows a rejected one
C17_Witness ==
  /\ ledRet.op = "addToken"
  /\ ~ledRet.threw
  /\ steps = 3
  /\ Len(ledger) = 2
  /\ idCounter = 3
  /\ ledger[2].token_id = 3

\* C18: whatever the order in which several callers issue their addToken
\* calls, each append is one atomic step: it pushes one entry whose
\* previous_hash is the hash of the entry that was last before the step (the
\* chain does not fork), leaves the earlier links alone, creates at most one
\* digest, and no range is sealed twice.
C18_AppendsSerialized ==
  [][(ledger' # ledger \/ merkleRoots' # merkleRoots) =>
       /\ \E c \in Callers : appendsBy' = [appendsBy EXCEPT ![c] = @ + 1]
       /\ Len(ledger') = Len(ledger) + 1
       /\ ledger'[Len(ledger')].previous_hash
            = (IF Len(ledger) = 0 THEN <<48>> ELSE ledger[Len(ledger)].hash)
       /\ \A k \in 1..Len(ledger) :
            /\ ledger'[k].hash = ledger[k].hash
            /\ ledger'[k].previous_hash = ledger[k].previous_hash
       /\ Len(merkleRoots') <= Len(merkleRoots) + 1
       /\ \A i, j \in 1..Len(merkleRoots') :
            i < j => merkleRoots'[i].batch_end < merkleRoots'[j].batch_start]_vars

\* C18 witness: both callers have appended in this run, and one of these
\* appends sealed the first hundred entries
C18_Witness ==
  /\ steps = 3
  /\ Len(ledger) = 101
  /\ appendsBy["other"] >= 1
  /\ appendsBy["batch"] >= 99
  /\ Len(merkleRoots) = 1
  /\ ~ledger[101].sealed

----------------------------------------------------------------------------
(* Claims about the activity history *)

\* C19: the activity history is a bounded FIFO of capacity 100: after n
\* registerActivity calls it holds exactly the min(n, 100) most recent
\* events, in arrival order (the oldest are evicted first).
C19_BoundedFifo ==
  LET n == Len(arrivals)
      m == Len(activityLog)
  IN /\ m = (IF n < 100 THEN n ELSE 100)
     /\ \A k \in 1..m :
          /\ activityLog[k].type = arrivals[n - m + k].type
          /\ activityLog[k].intensity = arrivals[n - m + k].intensity
          /\ activityLog[k].timestamp = arrivals[n - m + k].timestamp

\* C19 witness: 102 events registered, the last three in this run, of which
\* the history holds the last 100
C19_Witness ==
  /\ Len(arrivals) = 102
  /\ Len(activityLog) = 100
  /\ activityLog[100].type = "scroll"
  /\ activityLog[100].intensity = 15
  /\ activityLog[99].type = "click"
  /\ activityLog[97].intensity = 0

\* C20: detectAbuse reports no abuse whenever fewer than 10 events are in the
\* history; with 10 or more it looks at the last 10: a span under 1000 ms is
\* reported as rapid_fire, also when all 10 share one kind (rapid-fire is
\* checked first), a longer span with one kind as repetitive, anything else
\* as no abuse.
C20_DetectAbuseOrder ==
  capRet.op = "detectAbuse" =>
    IF Len(activityLog) < 10 THEN ~capRet.abuse_detected
    ELSE LET last == Len(activityLog)
             span == activityLog[last].timestamp - activityLog[last - 9].timestamp
             oneKind == \A k \in (last - 9)..last :
                          activityLog[k].type = activityLog[last].type
         IN IF span < 1000
            THEN /\ capRet.abuse_detected
                 /\ capRet.pattern = "rapid_fire"
                 /\ capRet.action = "throttle"
            ELSE IF oneKind
                 THEN /\ capRet.abuse_detected
                      /\ capRet.pattern = "repetitive"
                 ELSE ~capRet.abuse_detected

\* C20 witness: ten events of one kind within 600 ms, reported as rapid_fire
C20_Witness ==
  /\ capRet.op = "detectAbuse"
  /\ Len(activityLog) = 10
  /\ \A k \in 1..10 : activityLog[k].type = "click"
  /\ activityLog[10].timestamp - activityLog[1].timestamp = 600
  /\ capRet.abuse_detected
  /\ capRet.pattern = "rapid_fire"

\* C21 as stated: after 10 events of one kind registered within a 2-second
\* window, detectAbuse reports pattern = repetitive.
C21_RepetitiveWithinTwoSeconds ==
  (/\ capRet.op = "detectAbuse"
   /\ Len(activityLog) >= 10
   /\ \A k \in (Len(activityLog) - 9)..Len(activityLog) :
        activityLog[k].type = activityLog[Len(activityLog)].type
   /\ activityLog[Len(activityLog)].timestamp
        - activityLog[Len(activityLog) - 9].timestamp <= 2000)
    => (capRet.abuse_detected /\ capRet.pattern = "repetitive")

\* C21 amended: after 10 events of one kind whose first and last lie at least
\* 1000 ms (and at most 2 seconds) apart, detectAbuse reports pattern =
\* repetitive with action require_variety; when they lie less than 1000 ms
\* apart it reports rapid_fire instead.
C21_RepetitiveFromOneSecond ==
  (/\ capRet.op = "detectAbuse"
   /\ Len(activityLog) >= 10
   /\ \A k \in (Len(activityLog) - 9)..Len(activityLog) :
        activityLog[k].type = activityLog[Len(activityLog)].type)
    => LET span == activityLog[Len(activityLog)].timestamp
                     - activityLog[Len(activityLog) - 9].timestamp
       IN /\ (1000 <= span /\ span <= 2000) =>
               /\ capRet.abuse_detected
               /\ capRet.pattern = "repetitive"
               /\ capRet.action = "require_variety"
          /\ span < 1000 =>
               /\ capRet.abuse_detected
               /\ capRet.pattern = "rapid_fire"

\* C21 witness: ten clicks spread over 1200 ms, reported as repetitive
C21_Witness ==
  /\ capRet.op = "detectAbuse"
  /\ Len(activityLog) >= 10
  /\ \A k \in (Len(activityLog) - 9)..Len(activityLog) : activityLog[k].type = "click"
  /\ activityLog[Len(activityLog)].timestamp
       - activityLog[Len(activityLog) - 9].timestamp = 1200
  /\ capRet.abuse_detected
  /\ capRet.pattern = "repetitive"

C23_ClearQueueSparesBatch ==
  [][/\ ClearQueue =>
          /\ queue' = <<>>
          /\ bpRet'.op = "clearQueue"
          /\ bpRet'.cleared = Len(queue)
          /\ jobs' = jobs
          /\ processing' = processing
          /\ batchHistory' = batchHistory
          /\ processed' = processed
     /\ \A k \in 1..Len(jobs) :
          Resume(k) =>
            IF Len(jobs') < Len(jobs)
            THEN LET result == batchHistory'[Len(batchHistory')]
                 IN /\ result.size = Len(jobs[k].batch)
                    /\ Len(result.tokens) + Len(result.errors) = Len(jobs[k].batch)
                    /\ \A e \in 1..Len(result.errors) :
                         result.errors[e].request
                           = jobs[k].batch[result.errors[e].index + 1]
            ELSE /\ jobs'[Len(jobs')].batch = jobs[k].batch
                 /\ jobs'[Len(jobs')].size = jobs[k].size]_vars

\* C23 witness: a batch of two took the front of the backlog and suspended,
\* clearQueue dropped the rest, and the batch finished with both items
C23_Witness ==
  /\ workload = 2
  /\ submitted = Backlog
  /\ steps = 3
  /\ batchCount = 1
  /\ queue = <<>>
  /\ jobs = <<>>
  /\ bpRet.op = "processBatch"
  /\ Len(batchHistory) = 1
  /\ batchHistory[1].size = 2
  /\ Len(batchHistory[1].tokens) + Len(batchHistory[1].errors) = 2

\* C24: autoProcess is a no-op (pending queue, in-flight flag, batch history
\* and suspended calls unchanged) while fewer than 10 requests are pending;
\* with 10 or more pending and no batch in flight it drains exactly the first
\* 10 and hands them to token creation in order.
C24_AutoProcessThreshold ==
  [][AutoProcess =>
       IF Len(queue) < 10
       THEN /\ queue' = queue
            /\ processing' = processing
            /\ batchHistory' = batchHistory
            /\ jobs' = jobs
            /\ processed' = processed
            /\ bpRet'.op = "autoProcess"
       ELSE ~processing =>
              LET first == SubSeq(queue, 1, 10)
              IN /\ queue' = SubSeq(queue, 11, Len(queue))
                 /\ batchCount' = batchCount + 1
                 /\ IF Len(jobs') > 0
                    THEN /\ jobs'[1].batch = first
                         /\ jobs'[1].size = 10
                         /\ processing'
                         /\ processed' = processed \o SubSeq(first, 1, jobs'[1].i + 1)
                    ELSE /\ batchHistory'[Len(batchHistory')].size = 10
                         /\ Len(batchHistory') = Len(batchHistory) + 1
                         /\ processed' = processed \o first
                         /\ ~processing']_vars

\* C24 witness: autoProcess took 10 of the 11 pending requests, and a second
\* autoProcess left the one remaining request alone
C24_Witness ==
  /\ steps = 2
  /\ submitted = Backlog
  /\ Len(batchHistory) = 1
  /\ batchHistory[1].size = 10
  /\ Len(processed) = 10
  /\ Len(queue) = Backlog - 10
  /\ bpRet.op = "autoProcess"
  /\ "message" \in DOMAIN bpRet
  /\ bpRet.message = "Queue too small for auto-processing"

\* C25: mushroomBoost, called when no batch is in flight, drains in one batch
\* the entire pending sequence as it stands at the call, in enqueue order, also
\* when more than maxBatchSize = 100 requests are pending; what is pending
\* afterwards was enqueued after the drain.
C25_BoostDrainsAll ==
  /\ [][(~processing /\ Len(queue) > 0 /\ MushroomBoost) =>
          /\ queue' = <<>>
          /\ batchCount' = batchCount + 1
          /\ IF Len(jobs') > 0
             THEN /\ Len(jobs') = 1
                  /\ jobs'[1].batch = queue
                  /\ jobs'[1].size = Len(queue)
                  /\ processed' = processed \o SubSeq(queue, 1, jobs'[1].i + 1)
             ELSE /\ batchHistory'[Len(batchHistory')].size = Len(queue)
                  /\ processed' = processed \o queue]_vars
  /\ [](\A j \in 1..Len(jobs) :
          jobs[j].caller = "mushroomBoost" =>
            \A q \in 1..Len(queue) :
              queue[q].request_id > jobs[j].batch[Len(jobs[j].batch)].request_id)

\* C25 witness: a mushroomBoost batch holding all of the more than 100
\* requests that were pending, and one request enqueued since
C25_Witness ==
  /\ Len(jobs) = 1
  /\ jobs[1].caller = "mushroomBoost"
  /\ jobs[1].size = BigBacklog
  /\ jobs[1].size > maxBatchSize
  /\ Len(jobs[1].batch) = BigBacklog
  /\ Len(queue) = 1
  /\ queue[1].request_id = BigBacklog + 1

----------------------------------------------------------------------------
(* Claims about exports, backups and queries *)

\* C26: exportLedger followed by re-verification of the exported entries
\* (each exported entry's previous_hash against the hash of the exported
\* entry before it) gives the same valid result as verifyIntegrity on the live
\* ledger at the time of the export, which is also the integrity flag of the
\* export's stats.
C26_ExportRoundTrip ==
  ledRet.op = "exportLedger" =>
    LET exported == Deref(ledRet.ledger)
        reverified == \A i \in 2..Len(exported) :
                        exported[i].previous_hash = exported[i - 1].hash
    IN /\ reverified = verifyIntegrity(ledger).valid
       /\ reverified = ledRet.stats.integrity
       /\ Len(exported) = ledRet.stats.total_entries

\* C26 witness: an export of a ledger of at least three entries whose chain a
\* caller has broken
C26_Witness ==
  /\ ledRet.op = "exportLedger"
  /\ Len(Deref(ledRet.ledger)) >= 3
  /\ ~ledRet.stats.integrity
  /\ \E i \in 2..Len(ledger) : ledger[i].previous_hash # ledger[i - 1].hash

\* C27: an export is a snapshot: entries appended or sealed after exportLedger
\* or createFullBackup returned do not change the entries and digests that
\* the export or backup holds, so the entry count that listBackups reports for
\* a backup stays the count at the time the backup was made.
C27_ExportIsSnapshot ==
  /\ \A k \in 1..Len(backups) :
       backups[k].type = "full" =>
         /\ Len(Deref(backups[k].data.ledger.ledger))
              = backups[k].data.ledger.stats.total_entries
         /\ Len(Deref(backups[k].data.ledger.merkle_roots))
              = backups[k].data.ledger.stats.merkle_roots
  /\ bakRet.op = "listBackups" =>
       \A k \in 1..Len(bakRet.list) :
         bakRet.list[k].type = "full" =>
           bakRet.list[k].entries = backups[k].data.ledger.stats.total_entries

\* C28: an entry's hash is a deterministic function of the entry's content:
\* any two ledger entries whose stored content fields (token_id, token_type,
\* owner, value, timestamp) are equal have equal hash.
C28_HashOfContent ==
  \A i, j \in 1..Len(ledger) :
    (/\ ledger[i].token_id = ledger[j].token_id
     /\ ledger[i].token_type = ledger[j].token_type
     /\ ledger[i].owner = ledger[j].owner
     /\ ledger[i].value = ledger[j].value
     /\ ledger[i].timestamp = ledger[j].timestamp)
      => ledger[i].hash = ledger[j].hash

\* C29: query returns, in ledger order, exactly the entries that satisfy every
\* provided filter (owner equal, type equal, index >= fromIndex, index <=
\* toIndex); a filter that is not provided imposes no constraint, and query
\* leaves the ledger unchanged.
C29_QueryExact ==
  [][\A f \in QueryFilters :
       Query(f) =>
         LET results == ledRet'.results
             satisfies(e) ==
               /\ f.owner = "" \/ e.owner = f.owner
               /\ f.type = "" \/ e.token_type = f.type
               /\ f.fromIndex = Null \/ e.index >= f.fromIndex[1]
               /\ f.toIndex = Null \/ e.index <= f.toIndex[1]
         IN /\ \A k \in 1..(Len(results) - 1) :
                 results[k].entry_at < results[k + 1].entry_at
            /\ {results[k].entry_at : k \in 1..Len(results)}
                 = {i \in 0..(Len(ledger) - 1) : satisfies(ledger[i + 1])}
            /\ ledger' = ledger
            /\ merkleRoots' = merkleRoots]_vars

\* C29 witness: of a ledger of at least 100 entries, the query for alice's ART
\* tokens at indexes 0..1 has returned the entry at index 0 and nothing else
C29_Witness ==
  /\ ledRet.op = "query"
  /\ Len(ledger) >= 100
  /\ ledRet.results = <<EntryRef(0)>>
  /\ ledger[1].owner = "alice"
  /\ ledger[2].owner = "bob"

----------------------------------------------------------------------------
(* Claims about the request intake *)

\* C30: a mint request with a bad shape (missing source, unknown source,
\* neither trigger nor type, or missing owner) is rejected by receiveRequest
\* with a structured error and is not enqueued: request queue and
\* receivedCount are unchanged; every accepted request is enqueued exactly
\* once, at the end of the queue, and receivedCount grows by one.
C30_BadShapeRejected ==
  [][\A r \in ReceivedRequests, x \in RandomSuffixes :
       ReceiveRequest(r, x) =>
         IF \/ r.source = ""
            \/ r.source \notin {"dash-hub", "banksy", "commerce", "pricing-engine"}
            \/ (r.trigger = "" /\ r.type = "")
            \/ r.owner = ""
         THEN /\ recvRet'.success = FALSE
              /\ recvRet'.error \in {<<"Missing source">>,
                                     <<"Unknown source: ", r.source>>,
                                     <<"Missing trigger or type">>,
                                     <<"Missing owner">>}
              /\ requestQueue' = requestQueue
              /\ receivedCount' = receivedCount
         ELSE /\ recvRet'.success = TRUE
              /\ Len(requestQueue') = Len(requestQueue) + 1
              /\ SubSeq(requestQueue', 1, Len(requestQueue)) = requestQueue
              /\ \A field \in DOMAIN r :
                   requestQueue'[Len(requestQueue')][field] = r[field]
              /\ requestQueue'[Len(requestQueue')].request_id = recvRet'.request_id
              /\ recvRet'.queue_position = Len(requestQueue')
              /\ receivedCount' = receivedCount + 1]_vars

\* C30 witness: a request without owner was rejected after a request of
\* dash-hub had been accepted, which is still the only one in the queue
C30_Witness ==
  /\ recvRet.op = "receiveRequest"
  /\ ~recvRet.success
  /\ recvRet.error = <<"Missing owner">>
  /\ receivedCount = 1
  /\ Len(requestQueue) = 1
  /\ requestQueue[1].source = "dash-hub"
  /\ requestQueue[1].priority = "high"

----------------------------------------------------------------------------
(* Claims about the pipeline as a whole *)

\* The tokens that token creation has returned to a batch so far
ReturnedTokens ==
  UNION {{batchHistory[b].tokens[k] : k \in 1..Len(batchHistory[b].tokens)} :
           b \in 1..Len(batchHistory)}
    \cup UNION {{jobs[j].tokens[k] : k \in 1..Len(jobs[j].tokens)} :
                  j \in 1..Len(jobs)}
    \cup UNION {IF jobs[j].pending # <<>> /\ jobs[j].pending[1].success
                THEN {jobs[j].pending[1].token} ELSE {} : j \in 1..Len(jobs)}
    \cup {factoryLedger[k] : k \in 1..Len(factoryLedger)}
    \cup {mintingHistory[k] : k \in 1..Len(mintingHistory)}

\* C31: every token returned by the token-creation collaborators that
\* processBatch uses (ALCMinter.mint on success, TokenFactory.createToken)
\* carries immutable = true together with id, type, owner, value and
\* timestamp, so the ledger's addToken rejects no token that a batch
\* committed.
C31_ReturnedTokensImmutable ==
  \A t \in ReturnedTokens :
    /\ {"id", "type", "owner", "value", "timestamp", "immutable"} \subseteq DOMAIN t
    /\ t.immutable = TRUE
    /\ t.id >= 1
    /\ t.type # ""
    /\ t.owner # ""
    /\ t.value # 0
    /\ ~Rejected(t)

\* C31 witness: a finished batch has committed a token of the ALC minter and
\* a token of the factory
C31_Witness ==
  \E b \in 1..Len(batchHistory) :
    /\ \E k \in 1..Len(batchHistory[b].tokens) : batchHistory[b].tokens[k].type = "ALC"
    /\ \E k \in 1..Len(batchHistory[b].tokens) : batchHistory[b].tokens[k].type = "ART"

C33_BatchesFinish ==
  /\ (processing \/ batchCount > Len(batchHistory)) ~>
       (/\ ~processing
        /\ jobs = <<>>
        /\ Len(batchHistory) = batchCount
        /\ \A h \in 1..Len(batchHistory) :
             /\ batchHistory[h].batch_id = h
             /\ Len(batchHistory[h].tokens) + Len(batchHistory[h].errors)
                  = batchHistory[h].size)
  /\ [][\A k \in 1..Len(jobs) :
          (Resume(k) /\ Len(jobs') < Len(jobs)) =>
            /\ ~processing'
            /\ bpRet'.batch_id = jobs[k].batch_id
            /\ bpRet'.size = jobs[k].size
            /\ batchHistory'[Len(batchHistory')].batch_id = jobs[k].batch_id]_vars

\* C33 witness: a batch of two has finished although the ALC minter refused
\* its first item and the factory threw for its second, and no batch is in
\* flight
C33_Witness ==
  /\ ~processing
  /\ jobs = <<>>
  /\ Len(batchHistory) = 1
  /\ batchHistory[1].size = 2
  /\ batchHistory[1].tokens = <<>>
  /\ Len(batchHistory[1].errors) = 2
  /\ batchHistory[1].errors[1].error = "Insufficient capacitor charge"
  /\ batchHistory[1].errors[2].error = "Unknown token type"

\* Where the enqueued requests are, by request id: pending in the queue,
\* waiting in the batch in flight (not yet handed to token creation), or
\* handed to token creation
QueueIds == {queue[q].request_id : q \in 1..Len(queue)}

WaitingIds ==
  UNION {{jobs[j].batch[k].request_id : k \in (jobs[j].i + 2)..Len(jobs[j].batch)} :
           j \in 1..Len(jobs)}

ProcessedIds == {processed[k].request_id : k \in 1..Len(processed)}

\* The outcomes recorded so far: tokens and errors of the finished batches and
\* of the batch in flight
RecordedOutcomes ==
  LET count(r) == Len(r.tokens) + Len(r.errors)
      RECURSIVE Sum(_, _)
      Sum(seq, n) == IF n = 0 THEN 0 ELSE count(seq[n]) + Sum(seq, n - 1)
  IN Sum(batchHistory, Len(batchHistory)) + Sum(jobs, Len(jobs))

RecordedErrorIds ==
  UNION {{batchHistory[b].errors[k].request.request_id :
            k \in 1..Len(batchHistory[b].errors)} : b \in 1..Len(batchHistory)}
    \cup UNION {{jobs[j].errors[k].request.request_id :
                   k \in 1..Len(jobs[j].errors)} : j \in 1..Len(jobs)}

\* C34: no request is lost or processed twice: under any interleaving of
\* addToQueue, processBatch, autoProcess, mushroomBoost and clearQueue every
\* enqueued request is in exactly one place (the pending queue, the single
\* batch in flight, or dropped by clearQueue) until it has exactly one outcome
\* in exactly one BatchResult, a token or an error; requests leave these
\* places only when clearQueue drops the pending ones.
C34_NoLossNoDuplicate ==
  /\ [](/\ Len(jobs) <= 1
        /\ Cardinality(QueueIds) = Len(queue)
        /\ Cardinality(ProcessedIds) = Len(processed)
        /\ QueueIds \cap WaitingIds = {}
        /\ QueueIds \cap ProcessedIds = {}
        /\ WaitingIds \cap ProcessedIds = {}
        /\ (QueueIds \cup WaitingIds \cup ProcessedIds) \subseteq 1..submitted
        /\ RecordedOutcomes
             = Len(processed) - Cardinality({j \in 1..Len(jobs) : jobs[j].pending # <<>>})
        /\ RecordedErrorIds \subseteq ProcessedIds)
  /\ [][LET places == QueueIds \cup WaitingIds \cup ProcessedIds
            placesAfter == QueueIds' \cup WaitingIds' \cup ProcessedIds'
        IN /\ ProcessedIds \subseteq ProcessedIds'
           /\ ~(places \subseteq placesAfter) =>
                /\ queue' = <<>>
                /\ places \ placesAfter = QueueIds
                /\ bpRet'.op = "clearQueue"
                /\ bpRet'.cleared = Len(queue)
                /\ jobs' = jobs]_vars

\* C34 witness: requests 1 and 2 were dropped by clearQueue, request 3 is with
\* token creation, request 4 waits in the batch in flight and request 5 is
\* pending
C34_Witness ==
  /\ submitted = 5
  /\ QueueIds = {5}
  /\ WaitingIds = {4}
  /\ ProcessedIds = {3}
  /\ Len(jobs) = 1

\* The batches started so far, finished or in flight, with the outcomes they
\* have recorded (a mint whose result is awaited counts with its result)
StartedBatches ==
  {batchHistory[b] : b \in 1..Len(batchHistory)}
    \cup {[batch_id |-> jobs[j].batch_id,
           tokens |-> IF jobs[j].pending # <<>> /\ jobs[j].pending[1].success
                      THEN Append(jobs[j].tokens, jobs[j].pending[1].token)
                      ELSE jobs[j].tokens,
           errors |-> IF jobs[j].pending # <<>> /\ ~jobs[j].pending[1].success
                      THEN Append(jobs[j].errors,
                                  [index |-> jobs[j].i,
                                   request |-> jobs[j].batch[jobs[j].i + 1],
                                   error |-> jobs[j].pending[1].error])
                      ELSE jobs[j].errors] : j \in 1..Len(jobs)}

AlcCommits(r) == Cardinality({k \in 1..Len(r.tokens) : r.tokens[k].type = "ALC"})

ChargesDuring(b) == Cardinality({k \in 1..Len(arrivals) : arrivals[k].during = b})

\* the items of a batch that went to the ALC minter and failed
AlcFailures(r) ==
  {r.errors[k] : k \in {n \in 1..Len(r.errors) :
                          r.errors[n].request.type \in {"ALC", ""}}}

\* The gate itself: a step that commits an ALC mint commits one, starts from a
\* charge at or above the threshold of 100 and lowers it by 20 (floored at 0);
\* only chargeCapacitor raises the charge
C35_Gate ==
  [][/\ mintingHistory' # mintingHistory =>
          /\ Len(mintingHistory') = Len(mintingHistory) + 1
          /\ capacitorCharge >= 100
          /\ capacitorCharge' = (IF capacitorCharge > 20 THEN capacitorCharge - 20 ELSE 0)
     /\ capacitorCharge' > capacitorCharge =>
          /\ Len(arrivals') = Len(arrivals) + 1
          /\ UNCHANGED <<bpVars, mintingHistory>>]_vars

\* C35 as stated: ALC items are gated by the minter's capacitor (commit only
\* at charge >= threshold, each commit lowers the charge by 20); with
\* threshold 100 at most one ALC request commits per batch unless
\* chargeCapacitor is called while the batch is being processed, and every
\* other ALC item fails with 'Insufficient capacitor charge'.
C35_OneAlcPerBatch ==
  /\ C35_Gate
  /\ [](\A r \in StartedBatches :
          /\ AlcCommits(r) <= 1 + ChargesDuring(r.batch_id)
          /\ \A e \in AlcFailures(r) : e.error = "Insufficient capacitor charge")

\* C35 amended: the same, where every other ALC item whose request is valid
\* (it names an owner and an enabled trigger) fails with 'Insufficient
\* capacitor charge', and an ALC item whose request is not valid fails with
\* 'Invalid mint request' whatever the charge.
C35_OneValidAlcPerBatch ==
  /\ C35_Gate
  /\ [](\A r \in StartedBatches :
          /\ AlcCommits(r) <= 1 + ChargesDuring(r.batch_id)
          /\ \A e \in AlcFailures(r) :
               e.error = (IF /\ e.request.owner # ""
                             /\ e.request.trigger \in {"user_contribution", "purchase"}
                          THEN "Insufficient capacitor charge"
                          ELSE "Invalid mint request"))

\* C35 witness: a finished batch of three ALC requests, processed without a
\* chargeCapacitor call in between, committed the first and refused the others
C35_Witness ==
  \E r \in StartedBatches :
    /\ ChargesDuring(r.batch_id) = 0
    /\ AlcCommits(r) = 1
    /\ Len(r.tokens) = 1
    /\ Len(r.errors) = 2
    /\ r.errors[1].error = "Insufficient capacitor charge"
    /\ r.errors[2].error = "Insufficient capacitor charge"
    /\ capacitorCharge = 80

\* C36: after cleanOldBackups(keepLast) with keepLast >= 0, at most keepLast
\* backups remain, they are the most recent ones in their original order, and
\* the returned removed count equals the number of backups actually dropped.
C36_CleanKeepsLast ==
  [][\A n \in KeepLasts :
       CleanOldBackups(n) =>
         LET kept == IF Len(backups) < n THEN Len(backups) ELSE n
         IN /\ Len(backups') <= n
            /\ backups' = SubSeq(backups, Len(backups) - kept + 1, Len(backups))
            /\ bakRet'.removed = Len(backups) - Len(backups')]_vars

====
